---- MODULE Spec2Model ----
(***************************************************************************)
(* State-machine model of the sliced-PME plugin:                           *)
(*   - SlicedPmeForce (openmmapi/src/SlicedPmeForce.cpp): the registry of  *)
(*     particles, exceptions, global parameters, switching (scaling)       *)
(*     parameters and derivative requests;                                 *)
(*   - CudaCalcSlicedPmeForceKernel (platforms/cuda/src/                   *)
(*     CudaPmeSlicingKernels.cpp): the per-context evaluator that caches   *)
(*     slice lambdas and the Ewald self-energy.                            *)
(* Real numbers (charges, parameter values, energies) are modelled by      *)
(* integers; the values used are exactly representable in single and in    *)
(* double precision, so vector<float> copies and float uploads keep them.  *)
(* The kernel is the one of context index 0 of a single-context platform.  *)
(***************************************************************************)
EXTENDS Integers, Sequences, FiniteSets, TLC

\* ------------------------------------------------------------------ bounds
MaxSubsets == 2          \* numSubsets ranges over 1..MaxSubsets in the force specifications
MaxProbeSubsets == 5     \* numSubsets ranges over 1..MaxProbeSubsets in SpecSlice
MaxGlobals == 2          \* addGlobalParameter is called at most this many times
MaxSwitching == 2        \* addSwitchingParameter succeeds at most this many times
MaxParticles == 2        \* addParticle succeeds at most this many times
MaxExceptions == 2       \* addException grows the exception list to at most this length

MaxKernelSubsets == 3    \* numSubsets ranges over 1..MaxKernelSubsets in SpecKernel
MaxKernelSwitching == 1  \* switching parameters of the force a kernel is created for
MaxKernelParticles == 1  \* particles of the force a kernel is created for
MaxOffsets == 1          \* charge offsets of each kind that a force is given
MaxEvaluations == 2      \* force evaluations that a context begins
MaxForceGroup == 1       \* the force groups are 0 .. MaxForceGroup
MaxContexts == 3         \* contexts of the platform a kernel is initialized on
MaxGrid == 5             \* points of the PME grid along an axis
MaxCopyExceptions == 1   \* exceptions of the force whose parameters are copied
IntBits == 8             \* width of int in the model of findLegalDimension
MaxPrimeFactorArg == 7   \* maxPrimeFactor ranges over 2..MaxPrimeFactorArg

\* The value 1.0 (sliceLambdaVec.resize(numSlices, 1.0), coupParamValues.push_back(1.0)).
One == 1
SmallModulus == 2        \* 1.0e-7, the moduli being in units of half of it

Names == {"a", "b"}
DefaultValues == {One}
ParamValues == {0, One}
Charges == {1, 2}
ChargeProds == {0, 1}
Coulomb14Scales == {1, 2}

Min(x, y) == IF x < y THEN x ELSE y
Max(x, y) == IF x > y THEN x ELSE y

\* Zero-based element access, as in the C++ vectors.
At(seq, index) == seq[index + 1]
Indices(seq) == 0 .. (Len(seq) - 1)

VARIABLES
    \* --- SlicedPmeForce
    numSubsets,              \* int numSubsets
    globalParameters,        \* vector<GlobalParameterInfo>
    switchingParameters,     \* vector<SwitchingParameterInfo>
    switchParamDerivatives,  \* vector<int>: indices into switchingParameters
    particles,               \* vector<ParticleInfo>
    exceptions,              \* vector<ExceptionInfo>
    exceptionMap,            \* map<pair<int, int>, int>
    particleOffsets,         \* vector<ParticleOffsetInfo>
    exceptionOffsets,        \* vector<ExceptionOffsetInfo>
    \* --- the last API call
    op,                      \* the method called
    outcome,                 \* "ok", or the message of the exception thrown
    ret,                     \* the value returned (-1 when nothing is returned)
    \* --- the last subset-pair -> slice computation, and the place that did it
    site, sub1, sub2, slice,
    bondList,                \* the bonds last passed to createExceptionsFromBonds
    scale14,                 \* the coulomb14Scale last passed to createExceptionsFromBonds
    \* --- ContextImpl
    context,                 \* the value of every global parameter of the context
    \* --- CudaCalcSlicedPmeForceKernel
    initialized,             \* initialize() has run
    coupParamNames,          \* vector<string>
    coupParamValues,         \* vector<double>
    sliceCoupParamIndex,     \* vector<int>, one entry per slice, -1: no parameter
    sliceLambdaVec,          \* vector<double>, host side
    sliceLambda,             \* CudaArray, device side
    subsetSelfEnergy,        \* vector<double>, one entry per subset
    ewaldSelfEnergy,         \* double
    recomputeParams,         \* bool
    energy,                  \* the value the last execute() returned
    lambdaRead,              \* the device lambdas the kernels of the last execute() read
    numAtoms,                \* cu.getNumAtoms(): the particles of the system of the context
    exclusionAtoms,          \* CudaArray: the particle pair of every exception at initialize()
    exceptionPairs,          \* vector<vector<int> >: the pairs of the exceptions kept
    baseParticleCharges,     \* CudaArray, one charge per particle
    subsets,                 \* CudaArray, one subset per particle
    baseExceptionChargeProds,\* CudaArray, one chargeProd per exception kept
    hasOffsets,              \* bool
    paramNames,              \* vector<string>: the parameters of the charge offsets
    paramValues,             \* vector<double>
    contextIndex,            \* cu.getContextIndex() of the context the kernel was initialized on
    numContexts,             \* cu.getPlatformData().contexts.size()
    exclusionSlices,         \* exclusionSlicesVec: the slice of every exclusion of this context
    exceptionSlices,         \* exceptionSlicesVec: the slice of every exception of this context
    particleParamOffsets,    \* p: (charge scale, parameter index) of the particle offsets
    particleOffsetIndices,   \* particleOffsetIndicesVec
    exceptionParamOffsets,   \* e: (chargeProd scale, parameter index) of the exception offsets
    exceptionOffsetIndices,  \* exceptionOffsetIndicesVec
    usePmeStream,            \* bool: the reciprocal-space kernels have a stream of their own
    launched,                \* what the last execute() put on the streams, in order
    \* --- findLegalDimension(minimum, maxPrimeFactor)
    fftState,                \* "idle", "called", "searching", "returned", "trapped"
    requested,               \* the argument minimum of the call
    minimum,                 \* the parameter minimum, which the loop increments
    maxPrimeFactor,          \* the parameter maxPrimeFactor
    legalDimension,          \* the value returned
    overflowed,              \* minimum++ was evaluated with minimum = INT_MAX
    computedModuli,          \* vector<double> moduli of one axis, as the loops over i and j fill it
    pmeBsplineModuli,        \* CudaArray pmeBsplineModuliX/Y/Z: the moduli uploaded for the axis
    \* --- CudaCalcSlicedNonbondedForceKernel
    nonbondedMethod,         \* NonbondedMethod, "none" before initialize
    hasCoulomb,              \* bool
    hasLJ,                   \* bool
    doLJPME,                 \* bool
    pmeParameters,           \* alpha, gridSizeX, gridSizeY, gridSizeZ
    dispersionParameters,    \* dispersionAlpha, dispersionGridSizeX, ...Y, ...Z
    hasDerivatives,          \* bool
    nbUsePmeStream,          \* bool usePmeStream of the nonbonded kernel
    nbLaunched,              \* what its last execute() put on the streams, in order
    scalingParams,           \* vector<string>
    sliceScalingParams,      \* vector<int2>, one entry per slice, -1: no parameter
    sliceScalingParamDerivsVec, \* vector<int2>, one entry per slice
    sliceLambdasVec,         \* vector<double2>, one entry per slice
    nbSubsetSelfEnergy,      \* vector<double2> subsetSelfEnergy of the nonbonded kernel
    nbEwaldSelfEnergy,       \* double ewaldSelfEnergy of the nonbonded kernel
    nbHasOffsets,            \* bool hasOffsets of the nonbonded kernel
    nbParamNames,            \* vector<string> paramNames of the nonbonded kernel
    nbParamValues,           \* vector<double> paramValues of the nonbonded kernel
    nbRecomputeParams,       \* bool recomputeParams of the nonbonded kernel
    nbEnergy,                \* the value its last execute() returned
    kernelSelfEnergy,        \* its last execute() had the parameter kernel add the self-energy
    selfEnergyDerivs,        \* what its last execute() added to each parameter's derivative
    addEnergyInitialized,    \* bool initialized of its AddEnergyPostComputation
    addEnergyHasDerivatives, \* bool hasDerivatives of its AddEnergyPostComputation
    addEnergyForceGroup,     \* int forceGroup of its AddEnergyPostComputation
    nbForceGroup,            \* force.getForceGroup()
    nbRecipForceGroup,       \* force.getReciprocalSpaceForceGroup()
    forceScaling,            \* the scaling parameters of the force at initialize
    forceDerivs,             \* the names of the derivatives requested at initialize
    nbEvaluation,            \* the evaluation of the nonbonded force last begun
    addEnergyLaunch,         \* its post-computation launched addEnergy: "none" or in what state
    energyParamDerivs,       \* what the last post-computation added to each derivative
    postEnergy,              \* the energy the last post-computation returned
    postInputs,              \* what the last post-computation worked on
    \* --- one force evaluation of the CUDA context, and the device
    groups,                  \* per evaluation begun: the groups evaluated, includeEnergy
    queue,                   \* what the evaluations have put on the streams, in order
    completed                \* the positions of queue the device has finished

paramVars == <<globalParameters, switchingParameters, switchParamDerivatives>>
topoVars == <<particles, exceptions, exceptionMap>>
offsetVars == <<particleOffsets, exceptionOffsets>>
forceVars == <<numSubsets, paramVars, topoVars, offsetVars>>
callVars == <<op, outcome, ret>>
argVars == <<bondList, scale14>>
probeVars == <<site, sub1, sub2, slice, argVars>>
tableVars == <<contextIndex, numContexts, exclusionSlices, exceptionSlices,
               particleParamOffsets, particleOffsetIndices, exceptionParamOffsets,
               exceptionOffsetIndices>>
chargeVars == <<numAtoms, exclusionAtoms, exceptionPairs, baseParticleCharges, subsets,
                baseExceptionChargeProds, hasOffsets, paramNames, paramValues, tableVars>>
streamVars == <<usePmeStream, launched>>
kernelVars == <<context, initialized, coupParamNames, coupParamValues, sliceCoupParamIndex,
                sliceLambdaVec, sliceLambda, subsetSelfEnergy, ewaldSelfEnergy,
                recomputeParams, energy, lambdaRead, chargeVars, streamVars>>
nbScalingVars == <<scalingParams, sliceScalingParams, sliceScalingParamDerivsVec>>
nbEnergyVars == <<sliceLambdasVec, nbSubsetSelfEnergy, nbEwaldSelfEnergy, nbHasOffsets,
                  nbParamNames, nbParamValues, nbRecomputeParams, nbEnergy,
                  kernelSelfEnergy, selfEnergyDerivs, addEnergyInitialized>>
addEnergyVars == <<addEnergyHasDerivatives, addEnergyForceGroup, nbForceGroup, nbRecipForceGroup,
                   forceScaling, forceDerivs>>
postResults == <<energyParamDerivs, postEnergy, postInputs>>
postVars == <<nbEvaluation, addEnergyLaunch, postResults>>
moduliVars == <<computedModuli, pmeBsplineModuli>>
fftVars == <<fftState, requested, minimum, maxPrimeFactor, legalDimension, overflowed,
             moduliVars>>
nbVars == <<nonbondedMethod, hasCoulomb, hasLJ, doLJPME, pmeParameters, dispersionParameters,
            hasDerivatives, nbUsePmeStream, nbLaunched, nbScalingVars, nbEnergyVars,
            addEnergyVars>>
evalVars == <<groups, queue, completed>>
platformVars == <<fftVars, nbVars, evalVars, postVars>>
vars == <<forceVars, callVars, probeVars, kernelVars, platformVars>>

\* ------------------------------------------------- slice index computations

NumSlices(n) == (n * (n + 1)) \div 2

\* SlicedPmeForce::addSwitchingParameter / setSwitchingParameter:
\*   int i = std::min(subset1, subset2); int j = std::max(subset1, subset2);
\*   int slice = j*(j+1)/2+i;
SwitchingSliceOffByOne(subset1, subset2) ==
    LET i == Min(subset1, subset2)
        j == Max(subset1, subset2)
    IN  (j * (j - 1)) \div 2 + i

SwitchingSlice(subset1, subset2) ==
    LET i == Min(subset1, subset2)
        j == Max(subset1, subset2)
    IN  (j * (j + 1)) \div 2 + i

\* CudaCalcSlicedPmeForceKernel::initialize, exclusions:
\*   exclusionSlicesVec[k] = i > j ? i*(i+1)/2+j : j*(j+1)/2+i;
ExclusionSlice(i, j) ==
    IF i > j THEN (i * (i + 1)) \div 2 + j ELSE (j * (j + 1)) \div 2 + i

\* CudaCalcSlicedPmeForceKernel::initialize, exceptions:
\*   exceptionSlicesVec[k] = i > j ? i*(i+1)/2+j : j*(j+1)/2+i;
ExceptionSlice(i, j) ==
    IF i > j THEN (i * (i + 1)) \div 2 + j ELSE (j * (j + 1)) \div 2 + i

\* CudaCalcSlicedPmeForceKernel::initialize, coupling parameters:
\*   sliceCoupParamIndex[s2*(s2+1)/2+s1] = index;
CouplingSlice(s1, s2) == (s2 * (s2 + 1)) \div 2 + s1

Sites == {"addSwitchingParameter", "exclusion", "exception", "coupling"}

SliceAt(where, s1, s2) ==
    CASE where = "addSwitchingParameter" -> SwitchingSlice(s1, s2)
      [] where = "exclusion" -> ExclusionSlice(s1, s2)
      [] where = "exception" -> ExceptionSlice(s1, s2)
      [] where = "coupling" -> CouplingSlice(s1, s2)

\* One evaluation of the slice computation of a code site on valid subsets.
Probe(where, s1, s2) ==
    /\ site' = where
    /\ sub1' = s1
    /\ sub2' = s2
    /\ slice' = SliceAt(where, s1, s2)
    /\ UNCHANGED <<forceVars, callVars, argVars, kernelVars, platformVars>>

ProbeAddSwitchingParameter ==
    \E s1, s2 \in 0 .. (numSubsets - 1) : Probe("addSwitchingParameter", s1, s2)

ProbeExclusion ==
    \E s1, s2 \in 0 .. (numSubsets - 1) : Probe("exclusion", s1, s2)

ProbeException ==
    \E s1, s2 \in 0 .. (numSubsets - 1) : Probe("exception", s1, s2)

ProbeCoupling ==
    \E s1, s2 \in 0 .. (numSubsets - 1) : Probe("coupling", s1, s2)


\* --------------------------------------------- SlicedPmeForce: parameters

SubsetOutOfRange == "Subset out of range"
IndexOutOfRange == "Index out of range"
SliceDefined == "A switching parameter has already been defined for this slice"
NoGlobalParameter == "There is no global parameter called"
NoSwitchingParameter == "There is no switching parameter called"
DerivativeRequested == "This switching parameter derivative was already requested"

\* throw: the call ends with the exception; nothing was assigned before it.
Throw(method, message) ==
    /\ op' = method
    /\ outcome' = message
    /\ ret' = -1
    /\ UNCHANGED forceVars

Return(method, value) ==
    /\ op' = method
    /\ outcome' = "ok"
    /\ ret' = value

\* A range check that forgets the lower end.
ValidSubsetNoLowerEnd(subset) == ~(subset >= numSubsets)

\* ASSERT_VALID_SUBSET(subset): subset < 0 || subset >= numSubsets throws.
ValidSubset(subset) == ~(subset < 0 \/ subset >= numSubsets)

\* ASSERT_VALID_INDEX(index, vector)
ValidIndex(index, vector) == ~(index < 0 \/ index >= Len(vector))

\* GlobalParameterInfo(name, defaultValue)
GlobalParameterInfo(name, defaultValue) ==
    [name |-> name, defaultValue |-> defaultValue]

\* SwitchingParameterInfo(globalParamIndex, subset1, subset2): keeps the two
\* subsets as given and the slice of the pair, j*(j+1)/2+i with i = min, j = max.
SwitchingParameterInfo(globalParamIndex, subset1, subset2) ==
    [globalParamIndex |-> globalParamIndex,
     subset1 |-> subset1,
     subset2 |-> subset2,
     slice |-> (Max(subset1, subset2) * (Max(subset1, subset2) + 1)) \div 2
                   + Min(subset1, subset2)]

\* int SlicedPmeForce::addGlobalParameter(name, defaultValue)
AddGlobalParameter(name, defaultValue) ==
    /\ Len(globalParameters) < MaxGlobals
    /\ globalParameters' = Append(globalParameters, GlobalParameterInfo(name, defaultValue))
    /\ Return("addGlobalParameter", Len(globalParameters') - 1)
    /\ UNCHANGED <<numSubsets, offsetVars, switchingParameters, switchParamDerivatives>>
    /\ UNCHANGED <<topoVars, probeVars, kernelVars, platformVars>>

\* int SlicedPmeForce::getGlobalParameterIndex(parameter): the first index whose
\* name is parameter; -1 stands for the exception it throws when there is none.
GetGlobalParameterIndexLenient(parameter) ==
    LET found == {i \in Indices(globalParameters) : At(globalParameters, i).name = parameter}
    IN  IF found = {} THEN 0 ELSE CHOOSE i \in found : \A k \in found : i <= k

GetGlobalParameterIndex(parameter) ==
    LET found == {i \in Indices(globalParameters) : At(globalParameters, i).name = parameter}
    IN  IF found = {} THEN -1 ELSE CHOOSE i \in found : \A k \in found : i <= k

\* The loop of addSwitchingParameter and setSwitchingParameter:
\*   for (auto parameter : switchingParameters) if (parameter.slice == slice) throw
SliceAlreadyDefinedNever(s) == FALSE

SliceAlreadyDefined(s) ==
    \E k \in Indices(switchingParameters) : At(switchingParameters, k).slice = s

\* int SlicedPmeForce::addSwitchingParameter(parameter, subset1, subset2)
AddSwitchingParameter(parameter, subset1, subset2) ==
    /\ Len(switchingParameters) < MaxSwitching
    /\ IF ~ValidSubset(subset1) \/ ~ValidSubset(subset2)
          THEN Throw("addSwitchingParameter", SubsetOutOfRange)
       ELSE IF SliceAlreadyDefined(SwitchingSlice(subset1, subset2))
          THEN Throw("addSwitchingParameter", SliceDefined)
       ELSE IF GetGlobalParameterIndex(parameter) = -1
          THEN Throw("addSwitchingParameter", NoGlobalParameter)
       ELSE /\ switchingParameters' = Append(switchingParameters,
                   SwitchingParameterInfo(GetGlobalParameterIndex(parameter), subset1, subset2))
            /\ Return("addSwitchingParameter", Len(switchingParameters') - 1)
            /\ UNCHANGED <<numSubsets, offsetVars, globalParameters, switchParamDerivatives>>
    /\ UNCHANGED <<topoVars, probeVars, kernelVars, platformVars>>

\* setSwitchingParameter without the search for another holder of the slice.
SetSwitchingParameterUnchecked(index, parameter, subset1, subset2) ==
    /\ IF ~ValidIndex(index, switchingParameters)
          THEN Throw("setSwitchingParameter", IndexOutOfRange)
       ELSE IF ~ValidSubset(subset1) \/ ~ValidSubset(subset2)
          THEN Throw("setSwitchingParameter", SubsetOutOfRange)
       ELSE IF GetGlobalParameterIndex(parameter) = -1
          THEN Throw("setSwitchingParameter", NoGlobalParameter)
       ELSE /\ switchingParameters' = [switchingParameters EXCEPT ![index + 1] =
                   SwitchingParameterInfo(GetGlobalParameterIndex(parameter), subset1, subset2)]
            /\ Return("setSwitchingParameter", -1)
            /\ UNCHANGED <<numSubsets, offsetVars, globalParameters, switchParamDerivatives>>
    /\ UNCHANGED <<topoVars, probeVars, kernelVars, platformVars>>

\* void SlicedPmeForce::setSwitchingParameter(index, parameter, subset1, subset2)
SetSwitchingParameter(index, parameter, subset1, subset2) ==
    /\ IF ~ValidIndex(index, switchingParameters)
          THEN Throw("setSwitchingParameter", IndexOutOfRange)
       ELSE IF ~ValidSubset(subset1) \/ ~ValidSubset(subset2)
          THEN Throw("setSwitchingParameter", SubsetOutOfRange)
       ELSE IF GetGlobalParameterIndex(parameter) = -1
          THEN Throw("setSwitchingParameter", NoGlobalParameter)
       ELSE IF /\ At(switchingParameters, index).slice # SwitchingSlice(subset1, subset2)
               /\ SliceAlreadyDefined(SwitchingSlice(subset1, subset2))
          THEN Throw("setSwitchingParameter", SliceDefined)
       ELSE /\ switchingParameters' = [switchingParameters EXCEPT ![index + 1] =
                   SwitchingParameterInfo(GetGlobalParameterIndex(parameter), subset1, subset2)]
            /\ Return("setSwitchingParameter", -1)
            /\ UNCHANGED <<numSubsets, offsetVars, globalParameters, switchParamDerivatives>>
    /\ UNCHANGED <<topoVars, probeVars, kernelVars, platformVars>>

\* void SlicedPmeForce::getSwitchingParameter(index, parameter, subset1, subset2):
\* the name of the global parameter and the two subsets as stored.
GetSwitchingParameter(index) ==
    [parameter |-> At(globalParameters, At(switchingParameters, index).globalParamIndex).name,
     subset1 |-> At(switchingParameters, index).subset1,
     subset2 |-> At(switchingParameters, index).subset2]

\* int SlicedPmeForce::getSwitchingParameterIndex(parameter): the first switching
\* parameter whose global parameter has that name; -1 stands for the exception.
GetSwitchingParameterIndex(parameter) ==
    LET found == {i \in Indices(switchingParameters) :
                      At(globalParameters, At(switchingParameters, i).globalParamIndex).name = parameter}
    IN  IF found = {} THEN -1 ELSE CHOOSE i \in found : \A k \in found : i <= k

\* find(begin, end, switchParamIndex) != end
DerivativeAlreadyRequested(switchParamIndex) ==
    \E k \in Indices(switchParamDerivatives) : At(switchParamDerivatives, k) = switchParamIndex

\* int SlicedPmeForce::addSwitchingParameterDerivative(parameter)
AddSwitchingParameterDerivative(parameter) ==
    /\ IF GetSwitchingParameterIndex(parameter) = -1
          THEN Throw("addSwitchingParameterDerivative", NoSwitchingParameter)
       ELSE IF DerivativeAlreadyRequested(GetSwitchingParameterIndex(parameter))
          THEN Throw("addSwitchingParameterDerivative", DerivativeRequested)
       ELSE /\ switchParamDerivatives' =
                   Append(switchParamDerivatives, GetSwitchingParameterIndex(parameter))
            /\ Return("addSwitchingParameterDerivative", Len(switchParamDerivatives') - 1)
            /\ UNCHANGED <<numSubsets, offsetVars, globalParameters, switchingParameters>>
    /\ UNCHANGED <<topoVars, probeVars, kernelVars, platformVars>>

\* const string& SlicedPmeForce::getSwitchingParameterDerivativeName(index)
GetSwitchingParameterDerivativeName(index) ==
    At(globalParameters,
       At(switchingParameters, At(switchParamDerivatives, index)).globalParamIndex).name

\* void SlicedPmeForce::setSwitchingParameterDerivative(index, parameter)
SetSwitchingParameterDerivative(index, parameter) ==
    /\ IF ~ValidIndex(index, switchParamDerivatives)
          THEN Throw("setSwitchingParameterDerivative", IndexOutOfRange)
       ELSE IF GetSwitchingParameterIndex(parameter) = -1
          THEN Throw("setSwitchingParameterDerivative", NoSwitchingParameter)
       ELSE IF At(switchParamDerivatives, index) # GetSwitchingParameterIndex(parameter)
          THEN IF DerivativeAlreadyRequested(GetSwitchingParameterIndex(parameter))
                  THEN Throw("setSwitchingParameterDerivative", DerivativeRequested)
                  ELSE /\ switchParamDerivatives' = [switchParamDerivatives EXCEPT
                              ![index + 1] = GetSwitchingParameterIndex(parameter)]
                       /\ Return("setSwitchingParameterDerivative", -1)
                       /\ UNCHANGED <<numSubsets, offsetVars, globalParameters, switchingParameters>>
       ELSE /\ Return("setSwitchingParameterDerivative", -1)
            /\ UNCHANGED forceVars
    /\ UNCHANGED <<topoVars, probeVars, kernelVars, platformVars>>

\* Arguments the callers pass: every valid subset and one invalid value on
\* each side; every valid index and one invalid value on each side.
\* Pairs of subset arguments: every pair of valid subsets, and pairs with the
\* first or the second subset below or above the valid range.
SubsetPairArgs ==
    ((0 .. (numSubsets - 1)) \X (0 .. (numSubsets - 1)))
        \cup {<<-1, 0>>, <<numSubsets, 0>>, <<0, -1>>, <<0, numSubsets>>}
IndexArgs(vector) == -1 .. Len(vector)

CallAddGlobalParameter ==
    \E name \in Names, defaultValue \in DefaultValues : AddGlobalParameter(name, defaultValue)

CallAddSwitchingParameter ==
    \E parameter \in Names, pair \in SubsetPairArgs :
        AddSwitchingParameter(parameter, pair[1], pair[2])

CallSetSwitchingParameter ==
    \E index \in IndexArgs(switchingParameters), parameter \in Names,
       pair \in SubsetPairArgs :
        SetSwitchingParameter(index, parameter, pair[1], pair[2])

CallAddSwitchingParameterDerivative ==
    \E parameter \in Names : AddSwitchingParameterDerivative(parameter)

CallSetSwitchingParameterDerivative ==
    \E index \in IndexArgs(switchParamDerivatives), parameter \in Names :
        SetSwitchingParameterDerivative(index, parameter)

\* ------------------------------- SlicedPmeForce: particles and exceptions

ExceptionExists == "SlicedPmeForce: There is already an exception for particles"
IllegalBond == "createExceptionsFromBonds: Illegal particle index in list of bonds"

\* ParticleInfo(charge, subset)
ParticleInfo(charge, subset) == [charge |-> charge, subset |-> subset]

\* ExceptionInfo(particle1, particle2, chargeProd)
ExceptionInfo(particle1, particle2, chargeProd) ==
    [particle1 |-> particle1, particle2 |-> particle2, chargeProd |-> chargeProd]

\* int SlicedPmeForce::addParticle(charge, subset)
AddParticle(charge, subset) ==
    /\ Len(particles) < MaxParticles
    /\ IF ~ValidSubset(subset)
          THEN Throw("addParticle", SubsetOutOfRange)
          ELSE /\ particles' = Append(particles, ParticleInfo(charge, subset))
               /\ Return("addParticle", Len(particles') - 1)
               /\ UNCHANGED <<numSubsets, offsetVars, paramVars, exceptions, exceptionMap>>
    /\ UNCHANGED <<probeVars, kernelVars, platformVars>>

\* void SlicedPmeForce::setParticleSubset(int index, int subset)
SetParticleSubset(index, subset) ==
    /\ IF ~ValidIndex(index, particles)
          THEN Throw("setParticleSubset", IndexOutOfRange)
          ELSE IF ~ValidSubset(subset)
          THEN Throw("setParticleSubset", SubsetOutOfRange)
          ELSE /\ particles' = [particles EXCEPT ![index + 1].subset = subset]
               /\ Return("setParticleSubset", -1)
               /\ UNCHANGED <<numSubsets, offsetVars, paramVars, exceptions, exceptionMap>>
    /\ UNCHANGED <<probeVars, kernelVars, platformVars>>

\* void SlicedPmeForce::setParticleCharge(int index, double charge)
SetParticleCharge(index, charge) ==
    /\ IF ~ValidIndex(index, particles)
          THEN Throw("setParticleCharge", IndexOutOfRange)
          ELSE /\ particles' = [particles EXCEPT ![index + 1].charge = charge]
               /\ Return("setParticleCharge", -1)
               /\ UNCHANGED <<numSubsets, offsetVars, paramVars, exceptions, exceptionMap>>
    /\ UNCHANGED <<probeVars, kernelVars, platformVars>>

\* Subset arguments: every valid subset, one below and one above the range.
SubsetArgs == -1 .. numSubsets

CallAddParticleToSubset ==
    \E charge \in Charges, subset \in SubsetArgs : AddParticle(charge, subset)

CallSetParticleSubset ==
    \E index \in IndexArgs(particles), subset \in SubsetArgs : SetParticleSubset(index, subset)

\* addException, the two lookups:
\*   iter = exceptionMap.find(pair(particle1, particle2));
\*   if (iter == exceptionMap.end()) iter = exceptionMap.find(pair(particle2, particle1));
\* The key found, or <<>> for exceptionMap.end().
FindException(map, particle1, particle2) ==
    IF <<particle1, particle2>> \in DOMAIN map THEN <<particle1, particle2>>
    ELSE IF <<particle2, particle1>> \in DOMAIN map THEN <<particle2, particle1>>
    ELSE <<>>

\* exceptionMap.erase(key)
MapErase(map, key) == [k \in (DOMAIN map) \ {key} |-> map[k]]

\* exceptionMap[key] = value
MapPut(map, key, value) ==
    [k \in (DOMAIN map) \cup {key} |-> IF k = key THEN value ELSE map[k]]

\* int SlicedPmeForce::addException(particle1, particle2, chargeProd, replace) on
\* the exception list and map st: the list and map it leaves, whether it threw,
\* and the index it returns.
AddExceptionTo(st, particle1, particle2, chargeProd, replace) ==
    LET iter == FindException(st.exceptionMap, particle1, particle2)
    IN  IF iter # <<>>
           THEN IF ~replace
                   THEN [exceptions |-> st.exceptions, exceptionMap |-> st.exceptionMap,
                         thrown |-> TRUE, index |-> -1]
                   ELSE [exceptions |-> [st.exceptions EXCEPT ![st.exceptionMap[iter] + 1] =
                                            ExceptionInfo(particle1, particle2, chargeProd)],
                         exceptionMap |-> MapPut(MapErase(st.exceptionMap, iter),
                                                 <<particle1, particle2>>, st.exceptionMap[iter]),
                         thrown |-> FALSE, index |-> st.exceptionMap[iter]]
           ELSE [exceptions |-> Append(st.exceptions,
                                       ExceptionInfo(particle1, particle2, chargeProd)),
                 exceptionMap |-> MapPut(st.exceptionMap, <<particle1, particle2>>,
                                         Len(st.exceptions)),
                 thrown |-> FALSE, index |-> Len(st.exceptions)]

ExceptionState == [exceptions |-> exceptions, exceptionMap |-> exceptionMap]

AddException(particle1, particle2, chargeProd, replace) ==
    LET r == AddExceptionTo(ExceptionState, particle1, particle2, chargeProd, replace)
    IN  /\ Len(r.exceptions) <= MaxExceptions
        /\ IF r.thrown
              THEN Throw("addException", ExceptionExists)
              ELSE /\ exceptions' = r.exceptions
                   /\ exceptionMap' = r.exceptionMap
                   /\ Return("addException", r.index)
                   /\ UNCHANGED <<numSubsets, offsetVars, paramVars, particles>>
        /\ UNCHANGED <<probeVars, kernelVars, platformVars>>

\* void SlicedPmeForce::setExceptionParameters(index, particle1, particle2, chargeProd)
SetExceptionParameters(index, particle1, particle2, chargeProd) ==
    /\ IF ~ValidIndex(index, exceptions)
          THEN Throw("setExceptionParameters", IndexOutOfRange)
          ELSE /\ exceptions' = [exceptions EXCEPT ![index + 1] =
                      ExceptionInfo(particle1, particle2, chargeProd)]
               /\ Return("setExceptionParameters", -1)
               /\ UNCHANGED <<numSubsets, offsetVars, paramVars, particles, exceptionMap>>
    /\ UNCHANGED <<probeVars, kernelVars, platformVars>>

\* vector<set<int> > bonded12: the particles bonded to each particle.
Bonded12OneWay(bonds) ==
    [i \in Indices(particles) |-> {b[2] : b \in {c \in bonds : c[1] = i}}]

Bonded12(bonds) ==
    [i \in Indices(particles) |->
        {b[2] : b \in {c \in bonds : c[1] = i}} \cup {b[1] : b \in {c \in bonds : c[2] = i}}]

\* void SlicedPmeForce::addExclusionsToSet(bonded12, exclusions, baseParticle,
\* fromParticle, currentLevel): the particles it inserts into exclusions.
RECURSIVE AddExclusionsToSet(_, _, _, _)
AddExclusionsToSet(bonded12, baseParticle, fromParticle, currentLevel) ==
    UNION {({i} \ {baseParticle}) \cup
               (IF currentLevel > 0
                   THEN AddExclusionsToSet(bonded12, baseParticle, i, currentLevel - 1)
                   ELSE {})
           : i \in bonded12[fromParticle]}

\* The addException calls of createExceptionsFromBonds in the order of its two
\* loops (i ascending, j ascending in the std::set exclusions[i], j < i).
RECURSIVE ExceptionsFromBonds(_, _, _, _)
ExceptionsFromBonds(bonded12, coulomb14Scale, i, j) ==
    IF i >= Len(particles) THEN <<>>
    ELSE IF j >= i THEN ExceptionsFromBonds(bonded12, coulomb14Scale, i + 1, 0)
    ELSE IF j \notin AddExclusionsToSet(bonded12, i, i, 2)
       THEN ExceptionsFromBonds(bonded12, coulomb14Scale, i, j + 1)
    ELSE IF j \notin AddExclusionsToSet(bonded12, i, i, 1)
       THEN <<ExceptionInfo(j, i, coulomb14Scale * At(particles, j).charge
                                                 * At(particles, i).charge)>>
            \o ExceptionsFromBonds(bonded12, coulomb14Scale, i, j + 1)
    ELSE <<ExceptionInfo(j, i, 0)>> \o ExceptionsFromBonds(bonded12, coulomb14Scale, i, j + 1)

\* The addException(j, i, chargeProd) calls one after the other; the first that
\* throws ends the method and leaves the exceptions added before it.
RECURSIVE AddExceptions(_, _)
AddExceptions(st, todo) ==
    IF todo = <<>> THEN [exceptions |-> st.exceptions, exceptionMap |-> st.exceptionMap,
                         thrown |-> FALSE, index |-> -1]
    ELSE LET r == AddExceptionTo(st, todo[1].particle1, todo[1].particle2,
                                 todo[1].chargeProd, FALSE)
         IN  IF r.thrown THEN r ELSE AddExceptions(r, Tail(todo))

\* void SlicedPmeForce::createExceptionsFromBonds(bonds, coulomb14Scale, lj14Scale)
CreateExceptionsFromBonds(bonds, coulomb14Scale) ==
    /\ IF \E bond \in bonds : \/ bond[1] < 0 \/ bond[2] < 0
                              \/ bond[1] >= Len(particles) \/ bond[2] >= Len(particles)
          THEN Throw("createExceptionsFromBonds", IllegalBond)
          ELSE LET r == AddExceptions(ExceptionState,
                            ExceptionsFromBonds(Bonded12(bonds), coulomb14Scale, 0, 0))
               IN  /\ exceptions' = r.exceptions
                   /\ exceptionMap' = r.exceptionMap
                   /\ op' = "createExceptionsFromBonds"
                   /\ outcome' = IF r.thrown THEN ExceptionExists ELSE "ok"
                   /\ ret' = -1
                   /\ UNCHANGED <<numSubsets, offsetVars, paramVars, particles>>
    /\ UNCHANGED <<site, sub1, sub2, slice, kernelVars, platformVars>>

\* Particle indices the callers pass (addException and setExceptionParameters
\* do not compare them with the number of particles).
ParticleArgs == 0 .. (MaxParticles - 1)

\* Lists of bonds: up to two bonds, each between two different particles of
\* 0 .. MaxParticles - 1 or one of two bonds with an illegal index.
BondArgs ==
    LET legal == {b \in ParticleArgs \X ParticleArgs : b[1] < b[2]}
        ends == legal \cup {<<-1, 0>>, <<0, MaxParticles>>}
    IN  {{}} \cup {{b} : b \in ends} \cup {{b, c} : b \in ends, c \in ends}

\* addParticle(charge, 0): exceptions do not depend on the particles' subsets.
CallAddParticle ==
    \E charge \in Charges : AddParticle(charge, 0)

CallAddException ==
    \E particle1 \in ParticleArgs, particle2 \in ParticleArgs,
       chargeProd \in ChargeProds, replace \in BOOLEAN :
        AddException(particle1, particle2, chargeProd, replace)

CallSetExceptionParameters ==
    \E index \in IndexArgs(exceptions), particle1 \in ParticleArgs,
       particle2 \in ParticleArgs, chargeProd \in ChargeProds :
        SetExceptionParameters(index, particle1, particle2, chargeProd)

CallCreateExceptionsFromBonds ==
    \E bonds \in BondArgs, coulomb14Scale \in Coulomb14Scales :
        /\ CreateExceptionsFromBonds(bonds, coulomb14Scale)
        /\ Len(exceptions') <= MaxExceptions
        /\ UNCHANGED argVars

\* ParticleOffsetInfo(parameter, particle, chargeScale)
ParticleOffsetInfo(parameter, particle, chargeScale) ==
    [parameter |-> parameter, particle |-> particle, chargeScale |-> chargeScale]

\* ExceptionOffsetInfo(parameter, exception, chargeProdScale)
ExceptionOffsetInfo(parameter, exception, chargeProdScale) ==
    [parameter |-> parameter, exception |-> exception, chargeProdScale |-> chargeProdScale]

\* int SlicedPmeForce::addParticleChargeOffset(parameter, particleIndex, chargeScale)
AddParticleChargeOffset(parameter, particleIndex, chargeScale) ==
    /\ Len(particleOffsets) < MaxOffsets
    /\ IF GetGlobalParameterIndex(parameter) = -1
          THEN Throw("addParticleChargeOffset", NoGlobalParameter)
          ELSE /\ particleOffsets' = Append(particleOffsets,
                      ParticleOffsetInfo(GetGlobalParameterIndex(parameter), particleIndex,
                                         chargeScale))
               /\ Return("addParticleChargeOffset", Len(particleOffsets') - 1)
               /\ UNCHANGED <<numSubsets, paramVars, topoVars, exceptionOffsets>>
    /\ UNCHANGED <<probeVars, kernelVars, platformVars>>

\* int SlicedPmeForce::addExceptionChargeOffset(parameter, exceptionIndex, chargeProdScale)
AddExceptionChargeOffset(parameter, exceptionIndex, chargeProdScale) ==
    /\ Len(exceptionOffsets) < MaxOffsets
    /\ IF GetGlobalParameterIndex(parameter) = -1
          THEN Throw("addExceptionChargeOffset", NoGlobalParameter)
          ELSE /\ exceptionOffsets' = Append(exceptionOffsets,
                      ExceptionOffsetInfo(GetGlobalParameterIndex(parameter), exceptionIndex,
                                          chargeProdScale))
               /\ Return("addExceptionChargeOffset", Len(exceptionOffsets') - 1)
               /\ UNCHANGED <<numSubsets, paramVars, topoVars, particleOffsets>>
    /\ UNCHANGED <<probeVars, kernelVars, platformVars>>

\* --------------------------------------------- CudaCalcSlicedPmeForceKernel

ParticlesChanged == "updateParametersInContext: The number of particles has changed"
ExceptionsChanged ==
    "updateParametersInContext: The set of non-excluded exceptions has changed"

\* The position of name in a vector<string>, as find(begin, end, name) - begin:
\* the size of the vector when the name is not in it.
Find(names, name) ==
    LET found == {i \in Indices(names) : At(names, i) = name}
    IN  IF found = {} THEN Len(names) ELSE CHOOSE i \in found : \A k \in found : i <= k

\* initialize, "Initialize coupling parameters": the loop over the coupling
\* (switching) parameters of the force from entry i on, on the kernel's
\* coupParamNames, coupParamValues and sliceCoupParamIndex k.
RECURSIVE InitializeCouplingParameters(_, _)
InitializeCouplingParameters(k, i) ==
    IF i >= Len(switchingParameters) THEN k
    ELSE LET c == GetSwitchingParameter(i)
             index == Find(k.coupParamNames, c.parameter)
             isNew == index = Len(k.coupParamNames)
         IN  InitializeCouplingParameters(
                 [coupParamNames |-> IF isNew THEN Append(k.coupParamNames, c.parameter)
                                              ELSE k.coupParamNames,
                  coupParamValues |-> IF isNew THEN Append(k.coupParamValues, One)
                                               ELSE k.coupParamValues,
                  sliceCoupParamIndex |-> [k.sliceCoupParamIndex EXCEPT
                                              ![CouplingSlice(c.subset1, c.subset2) + 1] = index]],
                 i + 1)

\* initialize, context index 0:
\*   subsetSelfEnergy[subsetVec[i]] += baseParticleChargeVec[i]*baseParticleChargeVec[i];
\*   subsetSelfEnergy[j] *= -ONE_4PI_EPS0*alpha/sqrt(M_PI);
\* in units in which ONE_4PI_EPS0*alpha/sqrt(M_PI) is 1.
RECURSIVE SumOfSquaredCharges(_, _)
SumOfSquaredCharges(j, i) ==
    IF i >= Len(particles) THEN 0
    ELSE (IF At(particles, i).subset = j
             THEN At(particles, i).charge * At(particles, i).charge ELSE 0)
         + SumOfSquaredCharges(j, i + 1)

SubsetSelfEnergy == [s \in 1 .. numSubsets |-> 0 - SumOfSquaredCharges(s - 1, 0)]

\* for (j = 0; j < numSubsets; j++) ewaldSelfEnergy += subsetSelfEnergy[j];
RECURSIVE PlainSelfEnergy(_, _)
PlainSelfEnergy(selfEnergy, j) ==
    IF j >= numSubsets THEN 0
    ELSE At(selfEnergy, j) + PlainSelfEnergy(selfEnergy, j + 1)

\* for (j = 0; j < numSubsets; j++)
\*     ewaldSelfEnergy += sliceLambdaVec[j*(j+3)/2]*subsetSelfEnergy[j];
RECURSIVE ScaledSelfEnergy(_, _, _)
ScaledSelfEnergy(lambdas, selfEnergy, j) ==
    IF j >= numSubsets THEN 0
    ELSE At(lambdas, (j * (j + 3)) \div 2) * At(selfEnergy, j)
         + ScaledSelfEnergy(lambdas, selfEnergy, j + 1)

\* initialize and copyParametersToContext:
\*   exceptionsWithOffsets.insert(exception) for every exception charge offset
ExceptionsWithOffsets ==
    {At(exceptionOffsets, i).exception : i \in Indices(exceptionOffsets)}

\* initialize and copyParametersToContext, vector<int> exceptions: the indices
\* of the exceptions with chargeProd != 0.0 or with an offset, in order.
KeptExceptions ==
    SelectSeq([k \in 1 .. Len(exceptions) |-> k - 1],
              LAMBDA i : At(exceptions, i).chargeProd # 0 \/ i \in ExceptionsWithOffsets)

\* The particle pair of exception i of the force, as {atom1, atom2}.
PairOf(i) == <<At(exceptions, i).particle1, At(exceptions, i).particle2>>

\* initialize, "Initialize charge offsets": paramNames gets the parameter of
\* every particle offset, then of every exception offset, each name once.
RECURSIVE OffsetParamNames(_, _)
OffsetParamNames(names, offsets) ==
    IF offsets = <<>> THEN names
    ELSE LET param == At(globalParameters, Head(offsets).parameter).name
         IN  OffsetParamNames(IF Find(names, param) = Len(names)
                                 THEN Append(names, param) ELSE names,
                              Tail(offsets))

\* What execute puts on a stream: a kernel, cuEventRecord(event, stream),
\* cuStreamWaitEvent(stream, event).
\* grid: the grid set a reciprocal-space kernel works on, "none" otherwise.
GridKernel(stream, grid, name) ==
    [stream |-> stream, kind |-> "kernel", name |-> name, grid |-> grid]
Kernel(stream, name) == GridKernel(stream, "none", name)
EventRecord(event, stream) ==
    [stream |-> stream, kind |-> "record", name |-> event, grid |-> "none"]
StreamWaitEvent(stream, event) ==
    [stream |-> stream, kind |-> "wait", name |-> event, grid |-> "none"]

\* The context's parameters at its creation: the default value of each global
\* parameter of the force (a later parameter of the same name replaces an
\* earlier one).
DefaultParameters ==
    [name \in Names |->
        LET declared == {i \in Indices(globalParameters) : At(globalParameters, i).name = name}
        IN  IF declared = {} THEN One
            ELSE At(globalParameters, CHOOSE i \in declared : \A k \in declared : k <= i).defaultValue]

\* initialize, "Initialize the exclusions" and "Initialize the exceptions":
\*   startIndex = cu.getContextIndex()*n/numContexts;
\*   endIndex = (cu.getContextIndex()+1)*n/numContexts;
\* The part of a list of n entries that context c of N handles.
ContextRangeFloor(c, n, N) ==
    [startIndex |-> c * (n \div N), endIndex |-> (c + 1) * (n \div N)]
ContextRange(c, n, N) ==
    [startIndex |-> (c * n) \div N, endIndex |-> ((c + 1) * n) \div N]

\* The entries of the 0-based list at the indices of the range, in order.
Slice(list, range) ==
    [k \in 1 .. range.endIndex - range.startIndex |-> At(list, range.startIndex + k - 1)]

\* initialize, "Initialize charge offsets":
\*   if (index < startIndex || index >= endIndex) continue;
\* The exception offsets of the exceptions this context handles; exceptionIndex
\* of an exception is its place in the list of the exceptions kept.
HandledExceptionOffsets(range) ==
    SelectSeq(exceptionOffsets,
              LAMBDA o : LET index == Find(KeptExceptions, o.exception)
                         IN  index >= range.startIndex /\ index < range.endIndex)

\* initialize, "Initialize charge offsets":
\*   particleOffsetVec[particle].push_back(make_float2(charge, paramIndex));
\*   exceptionOffsetVec[index-startIndex].push_back(make_float2(charge, paramIndex));
\* The offsets mine of one target, in the order of the force, with their
\* scales; names are the parameter names found or added.
OffsetVec(mine, scales, names) ==
    [j \in 1 .. Len(mine) |->
        [scale |-> scales[j],
         paramIndex |-> Find(names, At(globalParameters, mine[j].parameter).name)]]

\* initialize: p.push_back(...) / e.push_back(...) for the offsets of every
\* target in turn.
RECURSIVE Flattened(_)
Flattened(offsetVec) ==
    IF offsetVec = <<>> THEN <<>> ELSE Head(offsetVec) \o Flattened(Tail(offsetVec))

\* initialize: particleOffsetIndicesVec.push_back(p.size()) before the offsets
\* of each particle, then while (size < particleOffsetIndices.getSize())
\* push_back(p.size()); exceptionOffsetIndicesVec the same, with one push_back
\* after the last exception. size is the number of entries of the array.
OffsetIndicesOfSizes(offsetVec, size) ==
    [i \in 1 .. size |-> IF i <= Len(offsetVec) THEN Len(offsetVec[i]) ELSE 0]
OffsetIndices(offsetVec, size) ==
    [i \in 1 .. size |->
        Len(Flattened(SubSeq(offsetVec, 1, IF i - 1 < Len(offsetVec) THEN i - 1
                                           ELSE Len(offsetVec))))]

\* cu.getPaddedNumAtoms(): the number of atoms rounded up to whole tiles; a
\* tile of two atoms here.
PaddedNumAtoms(n) == n + (n % 2)

\* void CudaCalcSlicedPmeForceKernel::initialize(system, force) in context
\* contextIndex of numberOfContexts.
InitializeOn(index, numberOfContexts, ownStream) ==
    /\ ~initialized
    /\ contextIndex' = index
    /\ numContexts' = numberOfContexts
    /\ numAtoms' = Len(particles)
    /\ LET range == ContextRange(index, Len(exceptions), numberOfContexts)
       IN  /\ exclusionAtoms' = Slice([k \in 1 .. Len(exceptions) |-> PairOf(k - 1)], range)
           /\ exclusionSlices' =
                  [k \in 1 .. Len(exclusionAtoms') |->
                      ExclusionSlice(At(particles, exclusionAtoms'[k][1]).subset,
                                     At(particles, exclusionAtoms'[k][2]).subset)]
    /\ LET range == ContextRange(index, Len(KeptExceptions), numberOfContexts)
           kept == Slice(KeptExceptions, range)
           handled == HandledExceptionOffsets(range)
           names == OffsetParamNames(OffsetParamNames(<<>>, particleOffsets), handled)
           particleOffsetVec ==
               [i \in 1 .. Len(particles) |->
                   LET mine == SelectSeq(particleOffsets, LAMBDA o : o.particle = i - 1)
                   IN  OffsetVec(mine, [j \in DOMAIN mine |-> mine[j].chargeScale], names)]
           exceptionOffsetVec ==
               [k \in 1 .. Len(kept) |->
                   LET mine == SelectSeq(handled, LAMBDA o : o.exception = kept[k])
                   IN  OffsetVec(mine, [j \in DOMAIN mine |-> mine[j].chargeProdScale],
                                 names)]
       IN  /\ exceptionPairs' = [k \in 1 .. Len(kept) |-> PairOf(kept[k])]
           /\ exceptionSlices' =
                  [k \in 1 .. Len(kept) |->
                      ExceptionSlice(At(particles, PairOf(kept[k])[1]).subset,
                                     At(particles, PairOf(kept[k])[2]).subset)]
           /\ baseExceptionChargeProds' =
                  [k \in 1 .. Len(kept) |-> At(exceptions, kept[k]).chargeProd]
           /\ paramNames' = names
           /\ particleParamOffsets' = Flattened(particleOffsetVec)
           /\ particleOffsetIndices' =
                  OffsetIndices(particleOffsetVec, PaddedNumAtoms(Len(particles)) + 1)
           /\ exceptionParamOffsets' = Flattened(exceptionOffsetVec)
           /\ exceptionOffsetIndices' = OffsetIndices(exceptionOffsetVec, Len(kept) + 1)
    /\ baseParticleCharges' = [i \in 1 .. Len(particles) |-> particles[i].charge]
    /\ subsets' = [i \in 1 .. Len(particles) |-> particles[i].subset]
    /\ hasOffsets' = (Len(particleOffsets) > 0 \/ Len(exceptionOffsets) > 0)
    /\ paramValues' = [i \in 1 .. Len(paramNames') |-> 0]
    /\ usePmeStream' = ownStream
    /\ LET numSlices == (numSubsets * (numSubsets + 1)) \div 2
           k == InitializeCouplingParameters(
                    [coupParamNames |-> <<>>, coupParamValues |-> <<>>,
                     sliceCoupParamIndex |-> [s \in 1 .. numSlices |-> -1]], 0)
       IN  /\ coupParamNames' = k.coupParamNames
           /\ coupParamValues' = k.coupParamValues
           /\ sliceCoupParamIndex' = k.sliceCoupParamIndex
           /\ sliceLambdaVec' = [s \in 1 .. numSlices |-> One]
           /\ sliceLambda' = [s \in 1 .. numSlices |-> One]
    /\ LET selfEnergy == IF index = 0 THEN SubsetSelfEnergy
                         ELSE [s \in 1 .. numSubsets |-> 0]
       IN  /\ subsetSelfEnergy' = selfEnergy
           /\ ewaldSelfEnergy' = PlainSelfEnergy(selfEnergy, 0)
    /\ recomputeParams' = TRUE
    /\ initialized' = TRUE
    /\ context' = DefaultParameters
    /\ op' = "initialize"
    /\ outcome' = "ok"
    /\ ret' = -1
    /\ UNCHANGED <<energy, lambdaRead, launched>>
    /\ UNCHANGED <<forceVars, probeVars, platformVars>>

\* initialize on a platform with one context.
Initialize(ownStream) == InitializeOn(0, 1, ownStream)

\* Context::setParameter(name, value) for a parameter the force declares.
SetParameter(name, value) ==
    /\ initialized
    /\ \E i \in Indices(globalParameters) : At(globalParameters, i).name = name
    /\ context' = [context EXCEPT ![name] = value]
    /\ op' = "setParameter"
    /\ outcome' = "ok"
    /\ ret' = -1
    /\ UNCHANGED <<initialized, coupParamNames, coupParamValues, sliceCoupParamIndex,
                   sliceLambdaVec, sliceLambda, subsetSelfEnergy, ewaldSelfEnergy,
                   recomputeParams, energy, lambdaRead, chargeVars, streamVars>>
    /\ UNCHANGED <<forceVars, probeVars, platformVars>>

\* execute, "Update coupling parameters if needed", second loop:
\*   index = sliceCoupParamIndex[slice];
\*   if (index != -1) sliceLambdaVec[slice] = coupParamValues[index];
UpdatedLambdas(values) ==
    [s \in 1 .. Len(sliceLambdaVec) |->
        IF sliceCoupParamIndex[s] # -1 THEN At(values, sliceCoupParamIndex[s])
                                       ELSE sliceLambdaVec[s]]

\* execute, "Execute the reciprocal space kernels", on the stream given.
ReciprocalLaunches(stream, includeEnergy) ==
    <<GridKernel(stream, "charge", "findAtomGridIndex"),
      GridKernel(stream, "charge", "sort"),
      GridKernel(stream, "charge", "gridSpreadCharge"),
      GridKernel(stream, "charge", "finishSpreadCharge"),
      GridKernel(stream, "charge", "execFFT(true)")>>
    \o (IF includeEnergy
           THEN <<GridKernel(stream, "charge", "gridEvaluateEnergy")>>
                \o (IF hasOffsets
                       THEN <<GridKernel(stream, "charge", "addSelfEnergy")>> ELSE <<>>)
           ELSE <<>>)
    \o <<GridKernel(stream, "charge", "reciprocalConvolution"),
         GridKernel(stream, "charge", "execFFT(false)"),
         GridKernel(stream, "charge", "gridInterpolateForce")>>

\* execute: everything the call puts on the streams, in the order of the code.
Launches(recompute, includeEnergy, includeDirect, includeReciprocal) ==
    LET hasExclusions == Len(exclusionAtoms) > 0
        pmeStream == IF usePmeStream THEN "pme" ELSE "main"
    IN  (IF recompute
            THEN <<Kernel("main", "computeParameters")>>
                 \o (IF hasExclusions
                        THEN <<Kernel("main", "computeExclusionParameters")>> ELSE <<>>)
                 \o (IF usePmeStream
                        THEN <<EventRecord("paramsSyncEvent", "main"),
                               StreamWaitEvent("pme", "paramsSyncEvent")>>
                        ELSE <<>>)
            ELSE <<>>)
        \o (IF hasExclusions /\ includeDirect
               THEN <<Kernel("main", "computeBonds")>> ELSE <<>>)
        \o (IF includeReciprocal
               THEN ReciprocalLaunches(pmeStream, includeEnergy)
                    \o (IF usePmeStream
                           THEN <<EventRecord("pmeSyncEvent", "pme")>> ELSE <<>>)
               ELSE <<>>)

\* An execute that returns the self-energy of a force with offsets as well.
ReturnedEnergyWithOffsets(includeEnergy, includeReciprocal, selfEnergy) ==
    IF includeReciprocal /\ includeEnergy THEN selfEnergy ELSE 0

\* execute: double energy = 0.0; ... in the reciprocal block,
\*   if (includeEnergy) { ... if (hasOffsets) addSelfEnergy kernel;
\*                            else energy = ewaldSelfEnergy; }
ReturnedEnergy(includeEnergy, includeReciprocal, selfEnergy) ==
    IF includeReciprocal /\ includeEnergy /\ ~hasOffsets THEN selfEnergy ELSE 0

\* double CudaCalcSlicedPmeForceKernel::execute(context, includeForces,
\* includeEnergy, includeDirect, includeReciprocal)
Execute(includeEnergy, includeDirect, includeReciprocal) ==
    /\ initialized
    /\ LET \* Update coupling parameters if needed.
           values == [i \in 1 .. Len(coupParamNames) |-> context[coupParamNames[i]]]
           coupParamChanged == \E i \in 1 .. Len(coupParamNames) : values[i] # coupParamValues[i]
           lambdas == IF coupParamChanged THEN UpdatedLambdas(values) ELSE sliceLambdaVec
           selfEnergy1 == IF coupParamChanged
                             THEN ScaledSelfEnergy(lambdas, subsetSelfEnergy, 0)
                             ELSE ewaldSelfEnergy
           uploaded == IF coupParamChanged THEN lambdas ELSE sliceLambda
           \* Update particle and exception parameters.
           offsetValues == [i \in 1 .. Len(paramNames) |-> context[paramNames[i]]]
           paramChanged == \E i \in 1 .. Len(paramNames) : offsetValues[i] # paramValues[i]
           recompute == recomputeParams \/ paramChanged
           selfEnergy2 == IF recompute
                             THEN ScaledSelfEnergy(lambdas, subsetSelfEnergy, 0)
                             ELSE selfEnergy1
       IN  /\ coupParamValues' = values
           /\ sliceLambdaVec' = lambdas
           /\ sliceLambda' = uploaded
           /\ paramValues' = offsetValues
           /\ ewaldSelfEnergy' = selfEnergy2
           /\ recomputeParams' = FALSE
           /\ launched' = Launches(recompute, includeEnergy, includeDirect, includeReciprocal)
           \* Do reciprocal space calculations: the kernels read the device lambdas.
           /\ lambdaRead' = IF includeReciprocal THEN uploaded ELSE lambdaRead
           /\ energy' = ReturnedEnergy(includeEnergy, includeReciprocal, selfEnergy2)
    /\ op' = "execute"
    /\ outcome' = "ok"
    /\ ret' = -1
    /\ UNCHANGED <<context, initialized, coupParamNames, sliceCoupParamIndex, subsetSelfEnergy>>
    /\ UNCHANGED <<numAtoms, exclusionAtoms, exceptionPairs, baseParticleCharges, subsets,
                   baseExceptionChargeProds, hasOffsets, paramNames, usePmeStream, tableVars>>
    /\ UNCHANGED <<forceVars, probeVars, platformVars>>

\* A check of the particle count that never fails.
ParticleCountChangedNever == FALSE

\* copyParametersToContext: force.getNumParticles() != cu.getNumAtoms()
ParticleCountChanged == Len(particles) # numAtoms

\* void CudaCalcSlicedPmeForceKernel::copyParametersToContext(context, force)
CopyParametersToContext ==
    /\ initialized
    /\ op' = "copyParametersToContext"
    /\ ret' = -1
    /\ IF ParticleCountChanged
          THEN /\ outcome' = ParticlesChanged
               /\ UNCHANGED <<baseParticleCharges, subsets, baseExceptionChargeProds,
                              ewaldSelfEnergy, subsetSelfEnergy, recomputeParams>>
          ELSE IF Len(KeptExceptions) # Len(exceptionPairs)
          THEN /\ outcome' = ExceptionsChanged
               /\ UNCHANGED <<baseParticleCharges, subsets, baseExceptionChargeProds,
                              ewaldSelfEnergy, subsetSelfEnergy, recomputeParams>>
          ELSE \* Record the per-particle parameters.
               /\ baseParticleCharges' = [i \in 1 .. Len(particles) |-> particles[i].charge]
               /\ subsets' = [i \in 1 .. Len(particles) |-> particles[i].subset]
               \* Record the exceptions.
               /\ IF \E i \in 1 .. Len(exceptionPairs) :
                         exceptionPairs[i] # PairOf(KeptExceptions[i])
                     THEN /\ outcome' = ExceptionsChanged
                          /\ UNCHANGED <<baseExceptionChargeProds, ewaldSelfEnergy,
                                         subsetSelfEnergy, recomputeParams>>
                     ELSE /\ outcome' = "ok"
                          /\ baseExceptionChargeProds' =
                                 [k \in 1 .. Len(KeptExceptions) |->
                                     At(exceptions, KeptExceptions[k]).chargeProd]
                          \* Compute other values.
                          /\ ewaldSelfEnergy' = 0
                          /\ subsetSelfEnergy' = SubsetSelfEnergy
                          /\ recomputeParams' = TRUE
    /\ UNCHANGED <<context, initialized, coupParamNames, coupParamValues, sliceCoupParamIndex,
                   sliceLambdaVec, sliceLambda, energy, lambdaRead>>
    /\ UNCHANGED <<numAtoms, exclusionAtoms, exceptionPairs, hasOffsets, paramNames,
                   paramValues, streamVars, tableVars>>
    /\ UNCHANGED <<forceVars, probeVars, platformVars>>

\* The force is set up, then the context is created for it.
SetUpGlobalParameter ==
    /\ ~initialized
    /\ CallAddGlobalParameter

SetUpSwitchingParameter ==
    /\ ~initialized
    /\ Len(switchingParameters) < MaxKernelSwitching
    /\ \E parameter \in Names, subset1, subset2 \in 0 .. (numSubsets - 1) :
           AddSwitchingParameter(parameter, subset1, subset2)

SetUpParticle ==
    /\ ~initialized
    /\ Len(particles) < MaxKernelParticles
    /\ \E charge \in Charges, subset \in 0 .. (numSubsets - 1) : AddParticle(charge, subset)

\* usePmeStream: the platform's disablePmeStream and useCpuPme, and the device.
CallInitialize == \E ownStream \in BOOLEAN : Initialize(ownStream)

CallSetParameter ==
    \E name \in Names, value \in ParamValues : SetParameter(name, value)

CallExecute ==
    \E includeEnergy \in BOOLEAN, includeDirect \in BOOLEAN, includeReciprocal \in BOOLEAN :
        Execute(includeEnergy, includeDirect, includeReciprocal)

\* ------------------------------------------------------- findLegalDimension

IntMax == 2 ^ (IntBits - 1) - 1
IntMin == 0 - 2 ^ (IntBits - 1)

\* C++ integer division and remainder, which truncate toward zero.
CDiv(a, b) == IF a >= 0 THEN a \div b ELSE 0 - ((0 - a) \div b)
CRem(a, b) == a - b * CDiv(a, b)

\* A factoring attempt that divides by each factor at most once.
RECURSIVE DivideOutOnce(_, _)
DivideOutOnce(unfactored, factor) ==
    IF unfactored > 1 /\ CRem(unfactored, factor) = 0
       THEN CDiv(unfactored, factor)
       ELSE unfactored

\* while (unfactored > 1 && unfactored%factor == 0) unfactored /= factor;
RECURSIVE DivideOut(_, _)
DivideOut(unfactored, factor) ==
    IF unfactored > 1 /\ CRem(unfactored, factor) = 0
       THEN DivideOut(CDiv(unfactored, factor), factor)
       ELSE unfactored

\* A factor loop that stops before maxPrimeFactor.
RECURSIVE UnfactoredBelow(_, _, _)
UnfactoredBelow(unfactored, factor, maxFactor) ==
    IF factor >= maxFactor THEN unfactored
    ELSE UnfactoredBelow(DivideOut(unfactored, factor), factor + 1, maxFactor)

\* for (int factor = 2; factor <= maxPrimeFactor; factor++) ...
RECURSIVE Unfactored(_, _, _)
Unfactored(unfactored, factor, maxFactor) ==
    IF factor > maxFactor THEN unfactored
    ELSE Unfactored(DivideOut(unfactored, factor), factor + 1, maxFactor)

\* No B-spline moduli have been computed.
ModuliIdle ==
    /\ computedModuli = <<>>
    /\ pmeBsplineModuli = <<>>

FftIdle ==
    /\ fftState = "idle"
    /\ requested = 0
    /\ minimum = 0
    /\ maxPrimeFactor = 0
    /\ legalDimension = 0
    /\ overflowed = FALSE
    /\ ModuliIdle

\* The call findLegalDimension(min, maxPrime), before its first statement.
FindLegalDimensionCalled(min, maxPrime) ==
    /\ fftState = "called"
    /\ requested = min
    /\ minimum = min
    /\ maxPrimeFactor = maxPrime
    /\ legalDimension = 0
    /\ overflowed = FALSE
    /\ ModuliIdle

\* if (minimum < 1) return 1;
FindLegalDimensionEnter ==
    /\ fftState = "called"
    /\ IF minimum < 1
          THEN fftState' = "returned" /\ legalDimension' = 1
          ELSE fftState' = "searching" /\ UNCHANGED legalDimension
    /\ UNCHANGED <<requested, minimum, maxPrimeFactor, overflowed>>
    /\ UNCHANGED <<forceVars, callVars, probeVars, kernelVars, nbVars, evalVars,
                   postVars, moduliVars>>

\* One iteration of while (true) that returns.
FindLegalDimensionReturn ==
    /\ fftState = "searching"
    /\ Unfactored(minimum, 2, maxPrimeFactor) = 1
    /\ fftState' = "returned"
    /\ legalDimension' = minimum
    /\ UNCHANGED <<requested, minimum, maxPrimeFactor, overflowed>>
    /\ UNCHANGED <<forceVars, callVars, probeVars, kernelVars, nbVars, evalVars,
                   postVars, moduliVars>>

\* One iteration of while (true) that ends in minimum++ below INT_MAX.
FindLegalDimensionIncrement ==
    /\ fftState = "searching"
    /\ Unfactored(minimum, 2, maxPrimeFactor) # 1
    /\ minimum < IntMax
    /\ minimum' = minimum + 1
    /\ UNCHANGED <<fftState, requested, maxPrimeFactor, legalDimension, overflowed>>
    /\ UNCHANGED <<forceVars, callVars, probeVars, kernelVars, nbVars, evalVars,
                   postVars, moduliVars>>

\* One iteration of while (true) that ends in minimum++ at INT_MAX: signed
\* overflow, undefined behaviour.  The build either wraps around or traps.
FindLegalDimensionOverflow ==
    /\ fftState = "searching"
    /\ Unfactored(minimum, 2, maxPrimeFactor) # 1
    /\ minimum = IntMax
    /\ overflowed' = TRUE
    /\ \/ minimum' = IntMin /\ UNCHANGED fftState
       \/ fftState' = "trapped" /\ UNCHANGED minimum
    /\ UNCHANGED <<requested, maxPrimeFactor, legalDimension>>
    /\ UNCHANGED <<forceVars, callVars, probeVars, kernelVars, nbVars, evalVars,
                   postVars, moduliVars>>

\* ----------------------------------------- CudaCalcSlicedNonbondedForceKernel

\* enum NonbondedMethod
NonbondedMethods == {"NoCutoff", "CutoffNonPeriodic", "CutoffPeriodic", "Ewald", "PME", "LJPME"}

NotUsingPme == "getPMEParametersInContext: This Context is not using PME"

\* Values of (alpha, nx, ny, nz): what calcPMEParameters and findLegalDimension
\* computed, or what the members held when initialize did not compute them.
PmeParameterValues == [alpha : {1, 2}, nx : {2, 3}, ny : {2}, nz : {2}]

NbIdle ==
    /\ nonbondedMethod = "none"
    /\ hasCoulomb = FALSE
    /\ hasLJ = FALSE
    /\ doLJPME = FALSE
    /\ pmeParameters = [alpha |-> 0, nx |-> 0, ny |-> 0, nz |-> 0]
    /\ dispersionParameters = [alpha |-> 0, nx |-> 0, ny |-> 0, nz |-> 0]
    /\ hasDerivatives = FALSE
    /\ nbUsePmeStream = FALSE
    /\ nbLaunched = <<>>
    /\ scalingParams = <<>>
    /\ sliceScalingParams = <<>>
    /\ sliceScalingParamDerivsVec = <<>>
    /\ sliceLambdasVec = <<>>
    /\ nbSubsetSelfEnergy = <<>>
    /\ nbEwaldSelfEnergy = 0
    /\ nbHasOffsets = FALSE
    /\ nbParamNames = <<>>
    /\ nbParamValues = <<>>
    /\ nbRecomputeParams = FALSE
    /\ nbEnergy = 0
    /\ kernelSelfEnergy = FALSE
    /\ selfEnergyDerivs = [name \in Names |-> 0]
    /\ addEnergyInitialized = FALSE
    /\ addEnergyHasDerivatives = FALSE
    /\ addEnergyForceGroup = 0
    /\ nbForceGroup = 0
    /\ nbRecipForceGroup = -1
    /\ forceScaling = <<>>
    /\ forceDerivs = {}

\* initialize: the PME grids are created when
\*   ((nonbondedMethod == PME || nonbondedMethod == LJPME) && hasCoulomb) || doLJPME
UsesPmeGrids(method, coulomb, lj) ==
    (method \in {"PME", "LJPME"} /\ coulomb) \/ (method = "LJPME" /\ lj)

\* int2 and double2
Pair2(x, y) == [x |-> x, y |-> y]

\* initialize: the reciprocal-space code of context 0 (INCLUDE_EWALD) is created
\* for Ewald, and for PME and LJPME when the grids are.
IncludeEwald(method, coulomb, lj) == method = "Ewald" \/ UsesPmeGrids(method, coulomb, lj)

\* initialize, the loop over the scaling parameters: entry index of the force's
\* list sets the entry of its slice in sliceScalingParams, and in
\* sliceScalingParamDerivsVec when a derivative is requested for its name.
RECURSIVE ScalingParameterSlices(_, _, _, _)
ScalingParameterSlices(st, scaling, derivs, index) ==
    IF index >= Len(scaling) THEN st
    ELSE LET p == At(scaling, index)
             s == SwitchingSlice(p.subset1, p.subset2) + 1
             entry == Pair2(IF p.includeCoulomb THEN index ELSE -1,
                            IF p.includeLJ THEN index ELSE -1)
         IN  ScalingParameterSlices(
                 [params |-> [st.params EXCEPT ![s] = entry],
                  derivs |-> IF p.name \in derivs
                                THEN [st.derivs EXCEPT ![s] = entry] ELSE st.derivs],
                 scaling, derivs, index + 1)

\* sum over the subsets of
\*   sliceLambdasVec[i*(i+3)/2].x*subsetSelfEnergy[i].x
\*   + sliceLambdasVec[i*(i+3)/2].y*subsetSelfEnergy[i].y
RECURSIVE NbSelfEnergy(_, _, _)
NbSelfEnergy(lambdas, selfEnergy, i) ==
    IF i >= numSubsets THEN 0
    ELSE At(lambdas, (i * (i + 3)) \div 2).x * At(selfEnergy, i).x
         + At(lambdas, (i * (i + 3)) \div 2).y * At(selfEnergy, i).y
         + NbSelfEnergy(lambdas, selfEnergy, i + 1)

\* void CudaCalcSlicedNonbondedForceKernel::initialize(system, force), context
\* index 0.  Of the force: method; coulomb and lj (some particle or offset has
\* a non-zero charge, a non-zero epsilon); derivs (the names of the derivatives
\* requested); offsets (it has parameter offsets, on the global parameter "a");
\* scaling (its scaling parameters); selfEnergy (per subset, the sums of
\* -charge^2*scale and of epsilon*(sigma*alpha)^6/3 over its particles);
\* forceGroup and recipForceGroup (-1: the force's group).
InitializeNonbonded(method, coulomb, lj, derivs, ownStream, pme, dispersion, offsets, scaling, selfEnergy, forceGroup, recipForceGroup) ==
    /\ nonbondedMethod = "none"
    /\ nonbondedMethod' = method
    /\ hasCoulomb' = coulomb
    /\ hasLJ' = lj
    /\ doLJPME' = (method = "LJPME" /\ lj)
    /\ pmeParameters' = pme
    /\ dispersionParameters' = dispersion
    /\ hasDerivatives' = (derivs # {})
    /\ nbUsePmeStream' = (ownStream /\ UsesPmeGrids(method, coulomb, lj))
    /\ UNCHANGED nbLaunched
    /\ scalingParams' = [i \in 1 .. Len(scaling) |-> scaling[i].name]
    /\ LET none == [s \in 1 .. NumSlices(numSubsets) |-> Pair2(-1, -1)]
           st == ScalingParameterSlices([params |-> none, derivs |-> none], scaling, derivs, 0)
       IN  /\ sliceScalingParams' = st.params
           /\ sliceScalingParamDerivsVec' = st.derivs
    /\ sliceLambdasVec' = [s \in 1 .. NumSlices(numSubsets) |-> Pair2(One, One)]
    /\ nbSubsetSelfEnergy' =
           [s \in 1 .. NumSlices(numSubsets) |->
               IF s <= numSubsets /\ IncludeEwald(method, coulomb, lj)
                  THEN Pair2(selfEnergy[s].x,
                             IF method = "LJPME" /\ lj THEN selfEnergy[s].y ELSE 0)
                  ELSE Pair2(0, 0)]
    /\ nbEwaldSelfEnergy' = NbSelfEnergy(sliceLambdasVec', nbSubsetSelfEnergy', 0)
    /\ nbHasOffsets' = offsets
    /\ nbParamNames' = IF offsets THEN <<"a">> ELSE <<>>
    /\ nbParamValues' = [i \in 1 .. Len(nbParamNames') |-> 0]
    /\ nbRecomputeParams' = TRUE
    /\ addEnergyInitialized' = FALSE
    /\ UNCHANGED addEnergyHasDerivatives
    /\ addEnergyForceGroup' = IF recipForceGroup >= 0 THEN recipForceGroup ELSE forceGroup
    /\ nbForceGroup' = forceGroup
    /\ nbRecipForceGroup' = recipForceGroup
    /\ forceScaling' = scaling
    /\ forceDerivs' = derivs
    /\ UNCHANGED <<nbEnergy, kernelSelfEnergy, selfEnergyDerivs>>
    /\ op' = "initialize"
    /\ outcome' = "ok"
    /\ ret' = -1
    /\ UNCHANGED <<forceVars, probeVars, kernelVars, fftVars, evalVars, postVars>>

\* getPMEParameters: if (nonbondedMethod != PME) throw
GetPMEParametersThrows == nonbondedMethod # "PME"

\* void CudaCalcSlicedNonbondedForceKernel::getPMEParameters(alpha, nx, ny, nz) const
GetPMEParameters ==
    /\ nonbondedMethod # "none"
    /\ op' = "getPMEParameters"
    /\ IF GetPMEParametersThrows
          THEN outcome' = NotUsingPme /\ ret' = -1
          ELSE outcome' = "ok" /\ ret' = pmeParameters
    /\ UNCHANGED <<forceVars, probeVars, kernelVars, platformVars>>

\* void CudaCalcSlicedNonbondedForceKernel::getLJPMEParameters(alpha, nx, ny, nz) const
GetLJPMEParameters ==
    /\ nonbondedMethod # "none"
    /\ op' = "getLJPMEParameters"
    /\ IF ~doLJPME
          THEN outcome' = NotUsingPme /\ ret' = -1
          ELSE outcome' = "ok" /\ ret' = dispersionParameters
    /\ UNCHANGED <<forceVars, probeVars, kernelVars, platformVars>>

\* execute, "Execute the reciprocal space kernels", if (hasCoulomb)
CoulombLaunches(stream, includeEnergy) ==
    <<GridKernel(stream, "charge", "findAtomGridIndex"),
      GridKernel(stream, "charge", "sort"),
      GridKernel(stream, "charge", "gridSpreadCharge"),
      GridKernel(stream, "charge", "finishSpreadCharge"),
      GridKernel(stream, "charge", "execFFT(true)")>>
    \o (IF includeEnergy \/ hasDerivatives
           THEN <<GridKernel(stream, "charge", "gridEvaluateEnergy")>> ELSE <<>>)
    \o <<GridKernel(stream, "charge", "reciprocalConvolution"),
         GridKernel(stream, "charge", "execFFT(false)"),
         GridKernel(stream, "charge", "gridInterpolateForce")>>

\* The dispersion kernels without the clearing of pmeGrid2.
DispersionLaunchesNoClear(stream, includeEnergy) ==
    <<GridKernel(stream, "dispersion", "findAtomGridIndex"),
      GridKernel(stream, "dispersion", "sort"),
      GridKernel(stream, "dispersion", "gridSpreadCharge"),
      GridKernel(stream, "dispersion", "finishSpreadCharge"),
      GridKernel(stream, "dispersion", "execFFT(true)")>>
    \o (IF includeEnergy \/ hasDerivatives
           THEN <<GridKernel(stream, "dispersion", "gridEvaluateEnergy")>> ELSE <<>>)
    \o <<GridKernel(stream, "dispersion", "reciprocalConvolution"),
         GridKernel(stream, "dispersion", "execFFT(false)"),
         GridKernel(stream, "dispersion", "gridInterpolateForce")>>

\* execute, if (doLJPME && hasLJ): the dispersion kernels, on the same pmeGrid1
\* and pmeGrid2.
DispersionLaunches(stream, includeEnergy) ==
    <<GridKernel(stream, "dispersion", "findAtomGridIndex"),
      GridKernel(stream, "dispersion", "sort"),
      GridKernel(stream, "dispersion", "clearBuffer(pmeGrid2)"),
      GridKernel(stream, "dispersion", "gridSpreadCharge"),
      GridKernel(stream, "dispersion", "finishSpreadCharge"),
      GridKernel(stream, "dispersion", "execFFT(true)")>>
    \o (IF includeEnergy \/ hasDerivatives
           THEN <<GridKernel(stream, "dispersion", "gridEvaluateEnergy")>> ELSE <<>>)
    \o <<GridKernel(stream, "dispersion", "reciprocalConvolution"),
         GridKernel(stream, "dispersion", "execFFT(false)"),
         GridKernel(stream, "dispersion", "gridInterpolateForce")>>

\* execute of the nonbonded kernel: everything the call puts on the streams, in
\* the order of the code, for a force without exceptions.  recompute is
\* recomputeParams || hasOffsets.
NonbondedLaunches(recompute, includeEnergy, includeReciprocal) ==
    LET pmeStream == IF nbUsePmeStream THEN "pme" ELSE "main"
    IN  (IF recompute
            THEN <<Kernel("main", "computeParameters")>>
                 \o (IF nbUsePmeStream
                        THEN <<EventRecord("paramsSyncEvent", "main"),
                               StreamWaitEvent("pme", "paramsSyncEvent")>>
                        ELSE <<>>)
            ELSE <<>>)
        \o (IF nonbondedMethod = "Ewald" /\ includeReciprocal
               THEN <<Kernel("main", "calculateEwaldCosSinSums"),
                      Kernel("main", "calculateEwaldForces")>>
               ELSE <<>>)
        \o (IF UsesPmeGrids(nonbondedMethod, hasCoulomb, hasLJ) /\ includeReciprocal
               THEN (IF hasCoulomb THEN CoulombLaunches(pmeStream, includeEnergy) ELSE <<>>)
                    \o (IF doLJPME /\ hasLJ
                           THEN DispersionLaunches(pmeStream, includeEnergy) ELSE <<>>)
                    \o (IF nbUsePmeStream
                           THEN <<EventRecord("pmeSyncEvent", "pme")>> ELSE <<>>)
               ELSE <<>>)

\* execute, "Update scaling parameters if needed": the lambdas of the slices
\* whose parameter has another value in the context.
ScaledLambdas ==
    [s \in 1 .. Len(sliceLambdasVec) |->
        LET indices == sliceScalingParams[s]
            index == Max(indices.x, indices.y)
            paramValue == context[At(scalingParams, index)]
            oldValue == IF indices.x # -1 THEN sliceLambdasVec[s].x ELSE sliceLambdasVec[s].y
        IN  IF index # -1 /\ oldValue # paramValue
               THEN Pair2(IF indices.x = -1 THEN One ELSE paramValue,
                          IF indices.y = -1 THEN One ELSE paramValue)
               ELSE sliceLambdasVec[s]]

\* execute, if (!hasOffsets): what is added to energyParamDerivs[param], the
\* sum over the subsets j whose diagonal slice has a derivative of param.
RECURSIVE SelfEnergyDerivative(_, _)
SelfEnergyDerivative(param, j) ==
    IF j >= numSubsets THEN 0
    ELSE LET indices == At(sliceScalingParamDerivsVec, (j * (j + 3)) \div 2)
             index == Max(indices.x, indices.y)
         IN  (IF index # -1 /\ At(scalingParams, index) = param
                 THEN (IF indices.x # -1 THEN At(nbSubsetSelfEnergy, j).x ELSE 0)
                      + (IF doLJPME /\ indices.y # -1 THEN At(nbSubsetSelfEnergy, j).y ELSE 0)
                 ELSE 0)
             + SelfEnergyDerivative(param, j + 1)

\* The computeParameters device kernel, compiled with the paramsDefines of
\* initialize: it adds the Ewald self-energy of the offset-adjusted charges to
\* the energy buffer when computeSelfEnergy is passed and both HAS_OFFSETS and
\* INCLUDE_EWALD are defined.
ComputeParametersAddsSelfEnergy(computeSelfEnergy) ==
    /\ computeSelfEnergy
    /\ nbHasOffsets
    /\ IncludeEwald(nonbondedMethod, hasCoulomb, hasLJ)

\* AddEnergyPostComputation::initialize: the derivative indices requested,
\* one per slice that has one, in the order of the slices:
\*   for (auto indices : sliceScalingParamDerivs)
\*       if (indices.x != -1 || (doLJPME && indices.y != -1))
\*           requestedDerivs.push_back(max(indices.x, indices.y));
RECURSIVE RequestedDerivs(_, _)
RequestedDerivs(derivsVec, ljpme) ==
    IF derivsVec = <<>> THEN <<>>
    ELSE LET indices == derivsVec[Len(derivsVec)]
             before == RequestedDerivs(SubSeq(derivsVec, 1, Len(derivsVec) - 1), ljpme)
         IN  IF indices.x # -1 \/ (ljpme /\ indices.y # -1)
                THEN Append(before, Max(indices.x, indices.y))
                ELSE before

\* A parameter kernel that runs only when recomputeParams was set before.
NbRecomputeFlagOnly(paramChanged) == nbRecomputeParams

\* execute: if (paramChanged) recomputeParams = true;
\*          if (recomputeParams || hasOffsets) { ... }
NbRecompute(paramChanged) == nbRecomputeParams \/ paramChanged \/ nbHasOffsets

\* double CudaCalcSlicedNonbondedForceKernel::execute(context, includeForces,
\* includeEnergy, includeDirect, includeReciprocal), for a force without
\* exceptions.
ExecuteNonbonded(includeEnergy, includeReciprocal) ==
    /\ nonbondedMethod # "none"
    /\ LET scalingParamChanged == ScaledLambdas # sliceLambdasVec
           selfEnergy == IF scalingParamChanged
                            THEN NbSelfEnergy(ScaledLambdas, nbSubsetSelfEnergy, 0)
                            ELSE nbEwaldSelfEnergy
           values == [i \in 1 .. Len(nbParamNames) |-> context[nbParamNames[i]]]
           paramChanged == values # nbParamValues
           recompute == NbRecompute(paramChanged)
       IN  /\ sliceLambdasVec' = ScaledLambdas
           /\ nbEwaldSelfEnergy' = selfEnergy
           /\ nbParamValues' = values
           /\ nbRecomputeParams' = FALSE
           /\ nbEnergy' = IF recompute /\ nbHasOffsets THEN 0
                          ELSE IF includeReciprocal THEN selfEnergy ELSE 0
           /\ kernelSelfEnergy' =
                  (recompute /\ ComputeParametersAddsSelfEnergy(includeEnergy /\ includeReciprocal))
           /\ nbLaunched' = NonbondedLaunches(recompute, includeEnergy, includeReciprocal)
    /\ addEnergyInitialized' =
           \/ addEnergyInitialized
           \/ includeReciprocal /\ IncludeEwald(nonbondedMethod, hasCoulomb, hasLJ)
    /\ addEnergyHasDerivatives' =
           IF ~addEnergyInitialized /\ addEnergyInitialized'
              THEN RequestedDerivs(sliceScalingParamDerivsVec, doLJPME) # <<>>
              ELSE addEnergyHasDerivatives
    /\ UNCHANGED <<addEnergyForceGroup, nbForceGroup, nbRecipForceGroup, forceScaling,
                   forceDerivs>>
    /\ selfEnergyDerivs' =
           [name \in Names |-> IF nbHasOffsets THEN 0 ELSE SelfEnergyDerivative(name, 0)]
    /\ op' = "execute"
    /\ outcome' = "ok"
    /\ ret' = nbEnergy'
    /\ UNCHANGED <<nonbondedMethod, hasCoulomb, hasLJ, doLJPME, pmeParameters,
                   dispersionParameters, hasDerivatives, nbUsePmeStream, nbScalingVars,
                   nbSubsetSelfEnergy, nbHasOffsets, nbParamNames>>
    /\ UNCHANGED <<forceVars, probeVars, kernelVars, fftVars, evalVars>>

\* void CudaCalcSlicedNonbondedForceKernel::copyParametersToContext(context,
\* force), context index 0.  Of the force: accepted (none of the four checks
\* throws) and selfEnergy, as for initialize.
NbCopyParametersToContext(accepted, selfEnergy) ==
    /\ nonbondedMethod # "none"
    /\ op' = "copyParametersToContext"
    /\ ret' = -1
    /\ IF ~accepted
          THEN /\ outcome' \in {ParticlesChanged, ExceptionsChanged}
               /\ UNCHANGED <<nbSubsetSelfEnergy, nbEwaldSelfEnergy, nbRecomputeParams>>
          ELSE /\ outcome' = "ok"
               /\ nbSubsetSelfEnergy' =
                      [s \in 1 .. numSubsets |->
                          IF nonbondedMethod \in {"Ewald", "PME", "LJPME"}
                             THEN Pair2(selfEnergy[s].x, IF doLJPME THEN selfEnergy[s].y ELSE 0)
                             ELSE Pair2(0, 0)]
               /\ nbEwaldSelfEnergy' = NbSelfEnergy(sliceLambdasVec, nbSubsetSelfEnergy', 0)
               /\ nbRecomputeParams' = TRUE
    /\ UNCHANGED <<nonbondedMethod, hasCoulomb, hasLJ, doLJPME, pmeParameters,
                   dispersionParameters, hasDerivatives, nbUsePmeStream, nbLaunched,
                   nbScalingVars, sliceLambdasVec, nbHasOffsets, nbParamNames, nbParamValues,
                   nbEnergy, kernelSelfEnergy, selfEnergyDerivs, addEnergyInitialized,
                   addEnergyVars>>
    /\ UNCHANGED <<forceVars, probeVars, kernelVars, fftVars, evalVars, postVars>>

\* A force without parameter offsets, scaling parameters and self-energy.
PlainForce == [offsets |-> FALSE, scaling |-> <<>>,
               selfEnergy |-> [s \in 1 .. numSubsets |-> Pair2(0, 0)],
               forceGroup |-> 0, recipForceGroup |-> -1]

CallInitializeNonbonded ==
    \E method \in NonbondedMethods, coulomb \in BOOLEAN, lj \in BOOLEAN,
       pme \in PmeParameterValues, dispersion \in PmeParameterValues :
        InitializeNonbonded(method, coulomb, lj, {}, FALSE, pme, dispersion,
                            PlainForce.offsets, PlainForce.scaling, PlainForce.selfEnergy,
                            PlainForce.forceGroup, PlainForce.recipForceGroup)

CallExecuteNonbonded ==
    \E includeEnergy \in BOOLEAN, includeReciprocal \in BOOLEAN :
        ExecuteNonbonded(includeEnergy, includeReciprocal) /\ UNCHANGED postVars

\* SlicedNonbondedForceImpl::calcForcesAndEnergy(context, includeForces,
\* includeEnergy, groups) of an evaluation of the groups given: the kernel's
\* execute is called with
\*   includeDirect = the force's group is among the groups,
\*   includeReciprocal = its reciprocal space group is (the force's group when
\*                       that is negative).
NbCalcForcesAndEnergy(evaluated, includeEnergy) ==
    /\ ~nbEvaluation.active
    /\ ExecuteNonbonded(includeEnergy,
                        IF nbRecipForceGroup >= 0 THEN nbRecipForceGroup \in evaluated
                                                  ELSE nbForceGroup \in evaluated)
    /\ nbEvaluation' = [active |-> TRUE, groups |-> evaluated, energy |-> includeEnergy]
    /\ UNCHANGED <<addEnergyLaunch, postResults>>

\* A post-computation that launches whatever the group of the evaluation.
AddEnergyLaunchesAnyGroup(includeEnergy, derivatives, evaluated) ==
    includeEnergy \/ derivatives

\* AddEnergyPostComputation::computeForceAndEnergy:
\*   if ((includeEnergy || hasDerivatives) && (groups&(1<<forceGroup)) != 0)
AddEnergyLaunches(includeEnergy, derivatives, evaluated) ==
    (includeEnergy \/ derivatives) /\ addEnergyForceGroup \in evaluated

\* The post-computations of the evaluation begun.  initialize registers the
\* AddEnergyPostComputation only with Ewald or the PME grids; its
\* hasDerivatives has no value before its initialize() has run.
NbAddEnergyPostComputation ==
    /\ nbEvaluation.active
    /\ nbEvaluation' = [nbEvaluation EXCEPT !.active = FALSE]
    /\ \E derivatives \in (IF addEnergyInitialized THEN {addEnergyHasDerivatives} ELSE BOOLEAN) :
           addEnergyLaunch' =
               IF /\ IncludeEwald(nonbondedMethod, hasCoulomb, hasLJ)
                  /\ AddEnergyLaunches(nbEvaluation.energy, derivatives, nbEvaluation.groups)
                  THEN (IF addEnergyInitialized THEN "initialized" ELSE "uninitialized")
                  ELSE "none"
    /\ op' = "AddEnergyPostComputation"
    /\ outcome' = "ok"
    /\ ret' = -1
    /\ UNCHANGED postResults
    /\ UNCHANGED <<forceVars, probeVars, kernelVars, fftVars, nbVars, evalVars>>

\* The sum of values[s] over the slices s (from 1) of the set selected.
RECURSIVE SliceSum(_, _, _)
SliceSum(values, selected, s) ==
    IF s > Len(values) THEN 0
    ELSE (IF s \in selected THEN values[s] ELSE 0) + SliceSum(values, selected, s + 1)

\* AddEnergyPostComputation::initialize, what the line of ADD_DERIVATIVES
\* generated for a requested index adds:
\*   for (slice ...) { if (sliceScalingParamDerivs[slice].x == index) +clEnergy[slice]
\*                     if (doLJPME && sliceScalingParamDerivs[slice].y == index)
\*                         +ljEnergy[slice] }
AddDerivativesLine(index, clEnergy, ljEnergy) ==
    LET Coulomb(s) == sliceScalingParamDerivsVec[s].x = index
        LennardJones(s) == doLJPME /\ sliceScalingParamDerivsVec[s].y = index
    IN  SliceSum(clEnergy, {slot \in DOMAIN clEnergy : Coulomb(slot)}, 1) + SliceSum(ljEnergy, {slot \in DOMAIN ljEnergy : LennardJones(slot)}, 1)

\* ADD_DERIVATIVES that takes every slice with a derivative for the index.
AddDerivativesAnyType(name, clEnergy, ljEnergy) ==
    LET indexList == RequestedDerivs(sliceScalingParamDerivsVec, doLJPME)
        WithDerivative(s) == Max(sliceScalingParamDerivsVec[s].x, sliceScalingParamDerivsVec[s].y) # -1
        lines == [k \in 1 .. Len(indexList) |->
                     SliceSum(clEnergy, {slot \in DOMAIN clEnergy : WithDerivative(slot)}, 1) + SliceSum(ljEnergy, {slot \in DOMAIN ljEnergy : WithDerivative(slot)}, 1)]
        Named(k) == At(scalingParams, indexList[k]) = name
    IN  SliceSum(lines, {slot \in DOMAIN lines : Named(slot)}, 1)

\* ADD_DERIVATIVES as a whole, for the derivative of one name: the sum of the
\* lines whose index is a scaling parameter of that name
\* (position = find(allDerivs, scalingParams[index])).
AddDerivatives(name, clEnergy, ljEnergy) ==
    LET indexList == RequestedDerivs(sliceScalingParamDerivsVec, doLJPME)
        lines == [k \in 1 .. Len(indexList) |->
                     AddDerivativesLine(indexList[k], clEnergy, ljEnergy)]
        Named(k) == At(scalingParams, indexList[k]) = name
    IN  SliceSum(lines, {slot \in DOMAIN lines : Named(slot)}, 1)

\* The addEnergy kernel that the post-computation launched runs on the raw
\* per-slice energies of the evaluation.
AddEnergyKernel(clEnergy, ljEnergy) ==
    /\ op = "AddEnergyPostComputation"
    /\ addEnergyLaunch = "initialized"
    /\ energyParamDerivs' = [name \in Names |-> AddDerivatives(name, clEnergy, ljEnergy)]
    /\ postEnergy' = 0
    /\ postInputs' = [first |-> clEnergy, second |-> ljEnergy, volume |-> 1]
    /\ op' = "addEnergy"
    /\ outcome' = "ok"
    /\ ret' = -1
    /\ UNCHANGED <<nbEvaluation, addEnergyLaunch>>
    /\ UNCHANGED <<forceVars, probeVars, kernelVars, fftVars, nbVars, evalVars>>

\* DispersionCorrectionPostComputation::computeForceAndEnergy(includeForces,
\* includeEnergy, groups), registered with the group of the force when
\* initialize computed dispersionCoefficients (given here, one per slice, with
\* the volume of the box).
DispersionCorrectionPostComputation(dispersionCoefficients, volume) ==
    /\ op = "execute"
    /\ nbEvaluation.active
    /\ hasLJ /\ ~doLJPME /\ nonbondedMethod \in {"CutoffPeriodic", "Ewald", "PME"}
    /\ LET derivatives == \E s \in 1 .. Len(sliceScalingParamDerivsVec) :
                              sliceScalingParamDerivsVec[s].y # -1
           computed == (nbEvaluation.energy \/ derivatives) /\ nbForceGroup \in nbEvaluation.groups
           terms == [s \in 1 .. Len(dispersionCoefficients) |->
                        (sliceLambdasVec[s].y * dispersionCoefficients[s]) \div volume]
           shares == [s \in 1 .. Len(dispersionCoefficients) |->
                         dispersionCoefficients[s] \div volume]
           All(s) == TRUE
       IN  /\ postEnergy' = IF computed THEN SliceSum(terms, {slot \in DOMAIN terms : All(slot)}, 1) ELSE 0
           /\ energyParamDerivs' =
                  [name \in Names |->
                      LET Named(s) == /\ sliceScalingParamDerivsVec[s].y # -1
                                      /\ At(scalingParams, sliceScalingParamDerivsVec[s].y) = name
                      IN  IF computed /\ derivatives THEN SliceSum(shares, {slot \in DOMAIN shares : Named(slot)}, 1) ELSE 0]
    /\ postInputs' = [first |-> dispersionCoefficients, second |-> <<>>, volume |-> volume]
    /\ op' = "DispersionCorrectionPostComputation"
    /\ outcome' = "ok"
    /\ ret' = postEnergy'
    /\ UNCHANGED <<nbEvaluation, addEnergyLaunch>>
    /\ UNCHANGED <<forceVars, probeVars, kernelVars, fftVars, nbVars, evalVars>>

\* ------------------------------------------- force evaluation on two streams

\* No force evaluation has begun.
EvalIdle ==
    /\ groups = <<>>
    /\ queue = <<>>
    /\ completed = {}
    /\ nbEvaluation = [active |-> FALSE, groups |-> {}, energy |-> FALSE]
    /\ addEnergyLaunch = "none"
    /\ energyParamDerivs = [name \in Names |-> 0]
    /\ postEnergy = 0
    /\ postInputs = [first |-> <<>>, second |-> <<>>, volume |-> 1]

\* Everything on the streams: execute has put its launches there when it
\* returns, the step after it appends them to queue.
Issued == IF op = "execute" THEN queue \o launched ELSE queue

\* cuStreamWaitEvent(stream, event) waits for the work captured by the most
\* recent cuEventRecord(event, ...) before it: the position of that record in
\* issued, 0 when the event was not recorded in this evaluation.
Captured(issued, i) ==
    LET records == {j \in 1 .. (i - 1) :
                       issued[j].kind = "record" /\ issued[j].name = issued[i].name}
    IN  IF records = {} THEN 0 ELSE CHOOSE j \in records : \A k \in records : k <= j

\* The device runs the next piece of work of a stream: a stream runs its work
\* in order, and a wait ends when the captured record has been reached.
DeviceRun(stream) ==
    LET pending == {i \in 1 .. Len(Issued) : Issued[i].stream = stream /\ i \notin completed}
    IN  /\ pending # {}
        /\ LET i == CHOOSE k \in pending : \A other \in pending : k <= other
           IN  /\ Issued[i].kind = "wait" =>
                      (Captured(Issued, i) = 0 \/ Captured(Issued, i) \in completed)
               /\ completed' = completed \cup {i}
        /\ UNCHANGED <<groups, queue>>
        /\ UNCHANGED <<forceVars, callVars, probeVars, kernelVars, fftVars, nbVars,
                   postVars>>

\* A step of the evaluation that puts work on the streams.
Issue(step, work) ==
    /\ queue' = Issued \o work
    /\ op' = step
    /\ outcome' = "ok"
    /\ ret' = -1
    /\ UNCHANGED <<groups, completed>>
    /\ UNCHANGED <<forceVars, probeVars, kernelVars, fftVars, nbVars,
                   postVars>>

\* The groups of the evaluation in progress.
Evaluated == groups[Len(groups)]

\* The context begins a force evaluation for some force groups, whatever the
\* device has still to run of the evaluations before: the autoclear buffers
\* (pmeGrid2 is one) are cleared on the main stream.
BeginComputation(direct, reciprocal, includeEnergy) ==
    /\ initialized
    /\ op \in {"initialize", "reduceForces"}
    /\ Len(groups) < MaxEvaluations
    /\ groups' = Append(groups, [direct |-> direct, reciprocal |-> reciprocal,
                                 energy |-> includeEnergy])
    /\ queue' = Append(queue, Kernel("main", "clearAutoclearBuffers"))
    /\ UNCHANGED completed
    /\ op' = "beginComputation"
    /\ outcome' = "ok"
    /\ ret' = -1
    /\ UNCHANGED <<forceVars, probeVars, kernelVars, fftVars, nbVars,
                   postVars>>

\* SyncStreamPreComputation::computeForceAndEnergy(includeForces, includeEnergy,
\* groups); the computation is registered only if (usePmeStream).
SyncStreamPreComputation ==
    /\ op = "beginComputation"
    /\ Issue("SyncStreamPreComputation",
             IF usePmeStream /\ Evaluated.reciprocal
                THEN <<EventRecord("pmeSyncEvent", "main"),
                       StreamWaitEvent("pme", "pmeSyncEvent")>>
                ELSE <<>>)

\* The force's execute, called with includeDirect and includeReciprocal from
\* the groups of the evaluation.
ExecuteInEvaluation ==
    /\ op = "SyncStreamPreComputation"
    /\ Execute(Evaluated.energy, Evaluated.direct, Evaluated.reciprocal)

\* The context computes the direct-space interactions on the main stream.
ComputeInteractions ==
    /\ op = "execute"
    /\ Issue("computeInteractions",
             IF Evaluated.direct THEN <<Kernel("main", "computeNonbonded")>> ELSE <<>>)

\* A post-computation that does not wait.
SyncStreamPostComputationNoWait ==
    /\ op = "computeInteractions"
    /\ Issue("SyncStreamPostComputation", <<>>)

\* SyncStreamPostComputation::computeForceAndEnergy(includeForces, includeEnergy,
\* groups); the computation is registered only if (usePmeStream).
SyncStreamPostComputation ==
    /\ op = "computeInteractions"
    /\ Issue("SyncStreamPostComputation",
             IF usePmeStream /\ Evaluated.reciprocal
                THEN <<StreamWaitEvent("main", "pmeSyncEvent")>>
                ELSE <<>>)

\* AddEnergyPostComputation::computeForceAndEnergy(includeForces, includeEnergy,
\* groups)
AddEnergyPostComputation ==
    /\ op = "SyncStreamPostComputation"
    /\ Issue("AddEnergyPostComputation",
             IF Evaluated.energy /\ Evaluated.reciprocal
                THEN <<Kernel("main", "addEnergy")>>
                ELSE <<>>)

\* The context sums the force buffers on the main stream.
ReduceForces ==
    /\ op = "AddEnergyPostComputation"
    /\ Issue("reduceForces", <<Kernel("main", "reduceForces")>>)

CallBeginComputation ==
    \E direct \in BOOLEAN, reciprocal \in BOOLEAN, includeEnergy \in BOOLEAN :
        BeginComputation(direct, reciprocal, includeEnergy)

CallDeviceRun == \E stream \in {"main", "pme"} : DeviceRun(stream)

\* ------------------------------------------------------------ construction

\* The force after addGlobalParameter, addParticle, addException,
\* addParticleChargeOffset and addExceptionChargeOffset for each entry of the
\* lists in turn: excs are the arguments of the addException calls.
RECURSIVE ExceptionsAdded(_, _)
ExceptionsAdded(st, excs) ==
    IF excs = <<>> THEN st
    ELSE ExceptionsAdded(AddExceptionTo(st, Head(excs).particle1, Head(excs).particle2,
                                        Head(excs).chargeProd, FALSE),
                         Tail(excs))

BuiltForce(n, globals, parts, excs, pOffsets, eOffsets) ==
    /\ numSubsets = n
    /\ globalParameters = globals
    /\ switchingParameters = <<>>
    /\ switchParamDerivatives = <<>>
    /\ particles = parts
    /\ LET st == ExceptionsAdded([exceptions |-> <<>>, exceptionMap |-> <<>>], excs)
       IN  /\ exceptions = st.exceptions
           /\ exceptionMap = st.exceptionMap
    /\ particleOffsets = pOffsets
    /\ exceptionOffsets = eOffsets

\* No method of the force has been called and no kernel has been created for it.
KernelNotCreated ==
    /\ op = "SlicedPmeForce"
    /\ outcome = "ok"
    /\ ret = -1
    /\ site = "none"
    /\ sub1 = 0
    /\ sub2 = 0
    /\ slice = 0
    /\ bondList = {}
    /\ scale14 = 0
    /\ context = [name \in Names |-> One]
    /\ initialized = FALSE
    /\ coupParamNames = <<>>
    /\ coupParamValues = <<>>
    /\ sliceCoupParamIndex = <<>>
    /\ sliceLambdaVec = <<>>
    /\ sliceLambda = <<>>
    /\ subsetSelfEnergy = <<>>
    /\ ewaldSelfEnergy = 0
    /\ recomputeParams = FALSE
    /\ energy = 0
    /\ lambdaRead = <<>>
    /\ numAtoms = 0
    /\ exclusionAtoms = <<>>
    /\ exceptionPairs = <<>>
    /\ baseParticleCharges = <<>>
    /\ subsets = <<>>
    /\ baseExceptionChargeProds = <<>>
    /\ hasOffsets = FALSE
    /\ paramNames = <<>>
    /\ paramValues = <<>>
    /\ contextIndex = 0
    /\ numContexts = 1
    /\ exclusionSlices = <<>>
    /\ exceptionSlices = <<>>
    /\ particleParamOffsets = <<>>
    /\ particleOffsetIndices = <<>>
    /\ exceptionParamOffsets = <<>>
    /\ exceptionOffsetIndices = <<>>
    /\ usePmeStream = FALSE
    /\ launched = <<>>

\* SlicedPmeForce::SlicedPmeForce(int numSubsets): throws for numSubsets <= 0.
Constructed(n) ==
    /\ n > 0
    /\ BuiltForce(n, <<>>, <<>>, <<>>, <<>>, <<>>)
    /\ KernelNotCreated

\* Nothing of the platform is in use.
PlatformIdle == FftIdle /\ NbIdle /\ EvalIdle

InitSlice == \E n \in 1 .. MaxProbeSubsets : Constructed(n) /\ PlatformIdle

NextSlice ==
    \/ ProbeAddSwitchingParameter
    \/ ProbeExclusion
    \/ ProbeException
    \/ ProbeCoupling

SpecSlice == InitSlice /\ [][NextSlice]_vars

InitForce == \E n \in 1 .. MaxSubsets : Constructed(n) /\ PlatformIdle

\* The scaling-parameter registry of one SlicedPmeForce.
NextSwitch ==
    \/ CallAddGlobalParameter
    \/ CallAddSwitchingParameter
    \/ CallSetSwitchingParameter

SpecSwitch == InitForce /\ [][NextSwitch]_vars

\* The registry together with the derivative requests.
NextDeriv ==
    \/ CallAddGlobalParameter
    \/ CallAddSwitchingParameter
    \/ CallSetSwitchingParameter
    \/ CallAddSwitchingParameterDerivative
    \/ CallSetSwitchingParameterDerivative

SpecDeriv == InitForce /\ [][NextDeriv]_vars

\* The particles and exceptions of one SlicedPmeForce.
NextExc ==
    \/ CallAddParticle
    \/ CallAddException
    \/ CallSetExceptionParameters
    \/ CallCreateExceptionsFromBonds

SpecExc == InitForce /\ [][NextExc]_vars

\* One force, its particles and their subsets.
NextPart ==
    \/ CallAddParticleToSubset
    \/ CallSetParticleSubset

SpecPart == InitForce /\ [][NextPart]_vars

\* One force, set up and then evaluated by its CUDA kernel.
InitKernel == \E n \in 1 .. MaxKernelSubsets : Constructed(n) /\ PlatformIdle

NextKernel ==
    \/ SetUpGlobalParameter
    \/ SetUpSwitchingParameter
    \/ SetUpParticle
    \/ CallInitialize
    \/ CallSetParameter
    \/ CallExecute

SpecKernel == InitKernel /\ [][NextKernel]_vars

\* One force with particles and exceptions: its parameters are changed after
\* the context was created, and copied to the context.
CopyAddParticle == AddParticle(One, 0)

\* The exceptions are between the first two particles, in either order.
CopyPairs == {pair \in {<<0, 1>>, <<1, 0>>} : ValidIndex(1, particles)}

CopyAddException ==
    /\ Len(exceptions) < MaxCopyExceptions
    /\ \E pair \in CopyPairs, chargeProd \in ChargeProds :
           AddException(pair[1], pair[2], chargeProd, FALSE)

CopySetUpGlobalParameter ==
    /\ ~initialized
    /\ globalParameters = <<>>
    /\ AddGlobalParameter("a", One)

CopyAddExceptionChargeOffset ==
    /\ ~initialized
    /\ \E exceptionIndex \in Indices(exceptions) :
           AddExceptionChargeOffset("a", exceptionIndex, One)

\* The values of the first particle are the ones changed.
CopySetParticleCharge ==
    /\ initialized
    /\ \E charge \in Charges : SetParticleCharge(0, charge)

CopySetParticleSubset ==
    /\ initialized
    /\ \E subset \in 0 .. (numSubsets - 1) : SetParticleSubset(0, subset)

CopySetExceptionParameters ==
    /\ initialized
    /\ \E index \in Indices(exceptions), pair \in CopyPairs, chargeProd \in ChargeProds :
           SetExceptionParameters(index, pair[1], pair[2], chargeProd)

NextCopy ==
    \/ CopyAddParticle
    \/ CopyAddException
    \/ CopySetUpGlobalParameter
    \/ CopyAddExceptionChargeOffset
    \/ Initialize(FALSE)
    \/ CopySetParticleCharge
    \/ CopySetParticleSubset
    \/ CopySetExceptionParameters
    \/ CopyParametersToContext

SpecCopy == InitForce /\ [][NextCopy]_vars

\* One force with a scaling parameter and a charge offset: its values are
\* changed, copied to the context and the kernel is executed.
SelfSetUpParticle ==
    /\ ~initialized
    /\ CopyAddParticle

SelfSetUpException ==
    /\ ~initialized
    /\ CopyAddException

SelfSetUpParticleChargeOffset ==
    /\ ~initialized
    /\ ValidIndex(0, particles)
    /\ AddParticleChargeOffset("a", 0, One)

\* The scaling parameter is bound to the diagonal slice of subset 0.
SelfSetUpSwitchingParameter ==
    /\ ~initialized
    /\ switchingParameters = <<>>
    /\ AddSwitchingParameter("a", 0, 0)

SelfSetParameter == \E value \in ParamValues : SetParameter("a", value)

\* Both force groups are evaluated.
SelfExecute == \E includeEnergy \in BOOLEAN : Execute(includeEnergy, TRUE, TRUE)

NextSelf ==
    \/ SelfSetUpParticle
    \/ SelfSetUpException
    \/ CopySetUpGlobalParameter
    \/ SelfSetUpSwitchingParameter
    \/ SelfSetUpParticleChargeOffset
    \/ Initialize(FALSE)
    \/ CopySetParticleCharge
    \/ CopySetParticleSubset
    \/ CopySetExceptionParameters
    \/ CopyParametersToContext
    \/ SelfSetParameter
    \/ SelfExecute

SpecSelf == InitForce /\ [][NextSelf]_vars

\* The two CUDA kernels and what their execute puts on the streams.
PipeInitializeNonbonded ==
    \E method \in NonbondedMethods, coulomb \in BOOLEAN, lj \in BOOLEAN,
       derivs \in {{}, {"a"}}, ownStream \in BOOLEAN, offsets \in BOOLEAN :
        InitializeNonbonded(method, coulomb, lj, derivs, ownStream,
                            [alpha |-> 1, nx |-> 2, ny |-> 2, nz |-> 2],
                            [alpha |-> 1, nx |-> 2, ny |-> 2, nz |-> 2],
                            offsets, PlainForce.scaling, PlainForce.selfEnergy,
                            PlainForce.forceGroup, PlainForce.recipForceGroup)

NextPipe ==
    \/ SelfSetUpParticle
    \/ CopySetUpGlobalParameter
    \/ SelfSetUpParticleChargeOffset
    \/ CallInitialize
    \/ CallExecute
    \/ PipeInitializeNonbonded
    \/ CallExecuteNonbonded

InitPipe == Constructed(1) /\ PlatformIdle

SpecPipe == InitPipe /\ [][NextPipe]_vars

\* Force evaluations of a context whose force has two particles and an
\* exception, with the device running the two streams.
StreamSetUpParticle ==
    /\ ~initialized
    /\ ~ValidIndex(1, particles)
    /\ CopyAddParticle

StreamSetUpException ==
    /\ ~initialized
    /\ exceptions = <<>>
    /\ ValidIndex(1, particles)
    /\ AddException(0, 1, One, FALSE)

StreamInitialize ==
    /\ ValidIndex(1, particles)
    /\ CallInitialize

NextStream ==
    \/ StreamSetUpParticle
    \/ StreamSetUpException
    \/ StreamInitialize
    \/ CallBeginComputation
    \/ SyncStreamPreComputation
    \/ ExecuteInEvaluation
    \/ ComputeInteractions
    \/ SyncStreamPostComputation
    \/ AddEnergyPostComputation
    \/ ReduceForces
    \/ CallDeviceRun

SpecStream == InitPipe /\ [][NextStream]_vars

\* The two kernels of one context, executed between changes of the global
\* parameter "a" and copies of the forces' parameters.
CoulombScaling ==
    <<[name |-> "a", subset1 |-> 0, subset2 |-> 0, includeLJ |-> FALSE, includeCoulomb |-> TRUE]>>

LazyInitializeNonbonded ==
    \E offsets \in BOOLEAN :
        InitializeNonbonded("PME", TRUE, FALSE, {}, FALSE,
                            [alpha |-> 1, nx |-> 2, ny |-> 2, nz |-> 2],
                            [alpha |-> 1, nx |-> 2, ny |-> 2, nz |-> 2],
                            offsets, <<>>, <<Pair2(-1, 0)>>, 0, -1)

LazyNbCopyParametersToContext ==
    \E accepted \in BOOLEAN :
        NbCopyParametersToContext(accepted, <<Pair2(-1, 0)>>)

NextLazy ==
    \/ CopySetUpGlobalParameter
    \/ CopyAddParticle
    \/ SelfSetUpParticleChargeOffset
    \/ Initialize(FALSE)
    \/ SelfSetParameter
    \/ CopyParametersToContext
    \/ SelfExecute
    \/ LazyInitializeNonbonded
    \/ CallExecuteNonbonded
    \/ LazyNbCopyParametersToContext

SpecLazy == InitPipe /\ [][NextLazy]_vars

\* Executes of the two kernels with every choice of includeDirect and
\* includeReciprocal; the nonbonded force has a particle of non-zero charge
\* and epsilon in its only subset and may scale the slice (0,0) by "a".
RecipInitializeNonbonded ==
    \E method \in NonbondedMethods, lj \in BOOLEAN, derivs \in {{}, {"a"}},
       offsets \in BOOLEAN, scaling \in {<<>>, CoulombScaling} :
        InitializeNonbonded(method, TRUE, lj, derivs, FALSE,
                            [alpha |-> 1, nx |-> 2, ny |-> 2, nz |-> 2],
                            [alpha |-> 1, nx |-> 2, ny |-> 2, nz |-> 2],
                            offsets, scaling, <<Pair2(-1, -1)>>, 0, -1)

NextRecip ==
    \/ CopyAddParticle
    \/ CallInitialize
    \/ CallExecute
    \/ RecipInitializeNonbonded
    \/ CallExecuteNonbonded

SpecRecip == InitPipe /\ [][NextRecip]_vars

\* Force evaluations of a context, for every choice of the groups evaluated
\* and of the groups of the nonbonded force.
ForceGroups == 0 .. MaxForceGroup

PostInitializeNonbonded ==
    \E method \in {"NoCutoff", "Ewald", "PME"}, derivs \in {{}, {"a"}},
       scaling \in {<<>>, CoulombScaling},
       forceGroup \in ForceGroups, recipForceGroup \in {-1} \cup ForceGroups :
        InitializeNonbonded(method, TRUE, FALSE, derivs, FALSE,
                            [alpha |-> 1, nx |-> 2, ny |-> 2, nz |-> 2],
                            [alpha |-> 1, nx |-> 2, ny |-> 2, nz |-> 2],
                            FALSE, scaling, <<Pair2(-1, 0)>>, forceGroup, recipForceGroup)

PostCalcForcesAndEnergy ==
    \E evaluated \in SUBSET ForceGroups, includeEnergy \in BOOLEAN :
        NbCalcForcesAndEnergy(evaluated, includeEnergy)

NextPost ==
    \/ PostInitializeNonbonded
    \/ PostCalcForcesAndEnergy
    \/ NbAddEnergyPostComputation

SpecPost == InitPipe /\ [][NextPost]_vars

\* Evaluations of a nonbonded force with two subsets and up to two scaling
\* parameters, on different slices; the raw energies of the three slices are
\* different powers of two, so that a sum tells its terms.
ScalingParameters ==
    [name : Names, subset1 : {0}, subset2 : 0 .. 1, includeLJ : BOOLEAN, includeCoulomb : BOOLEAN]
        \cup [name : Names, subset1 : {1}, subset2 : {1}, includeLJ : BOOLEAN,
               includeCoulomb : BOOLEAN]

ScalingLists ==
    {<<>>}
        \cup {<<p>> : p \in {q \in ScalingParameters : q.name = "a"}}
        \cup {<<p, r>> : p \in {q \in ScalingParameters : q.name = "a"},
                         r \in {q \in ScalingParameters : q.subset1 = 1}}

AmountsInitializeNonbonded ==
    \E method \in {"CutoffPeriodic", "PME", "LJPME"}, derivs \in {{}, {"a"}, {"a", "b"}},
       scaling \in {l \in ScalingLists :
                       \A i, k \in 1 .. Len(l) :
                           i # k => SwitchingSlice(l[i].subset1, l[i].subset2)
                                       # SwitchingSlice(l[k].subset1, l[k].subset2)} :
        InitializeNonbonded(method, TRUE, TRUE, derivs, FALSE,
                            [alpha |-> 1, nx |-> 2, ny |-> 2, nz |-> 2],
                            [alpha |-> 1, nx |-> 2, ny |-> 2, nz |-> 2],
                            FALSE, scaling, <<Pair2(-1, -1), Pair2(-1, -1)>>, 0, -1)

AmountsCalcForcesAndEnergy ==
    \E includeEnergy \in BOOLEAN : NbCalcForcesAndEnergy({0}, includeEnergy)

AmountsAddEnergyKernel ==
    \E scale \in 1 .. 2 : AddEnergyKernel(<<scale, 2 * scale, 4 * scale>>, <<8, 16, 32>>)

AmountsDispersionCorrection ==
    \E volume \in 1 .. 2 : DispersionCorrectionPostComputation(<<2, 4, 8>>, volume)

NextAmounts ==
    \/ CopySetUpGlobalParameter
    \/ Initialize(FALSE)
    \/ SelfSetParameter
    \/ AmountsInitializeNonbonded
    \/ AmountsCalcForcesAndEnergy
    \/ NbAddEnergyPostComputation
    \/ AmountsAddEnergyKernel
    \/ AmountsDispersionCorrection

InitAmounts == Constructed(2) /\ PlatformIdle

SpecAmounts == InitAmounts /\ [][NextAmounts]_vars

\* Calls of findLegalDimension, with arguments around the ends of int.
MinimumArgs == (-2 .. 2) \cup {100, 101} \cup ((IntMax - 40) .. IntMax) \cup {IntMin}

InitFft ==
    /\ Constructed(1)
    /\ NbIdle
    /\ EvalIdle
    /\ \E min \in MinimumArgs, maxPrime \in 2 .. MaxPrimeFactorArg :
           FindLegalDimensionCalled(min, maxPrime)

NextFft ==
    \/ FindLegalDimensionEnter
    \/ FindLegalDimensionReturn
    \/ FindLegalDimensionIncrement
    \/ FindLegalDimensionOverflow

SpecFft == InitFft /\ [][NextFft]_vars

\* One nonbonded kernel and its parameter getters.
InitNb == Constructed(1) /\ PlatformIdle

NextNb ==
    \/ CallInitializeNonbonded
    \/ GetPMEParameters
    \/ GetLJPMEParameters

SpecNb == InitNb /\ [][NextNb]_vars

\* -------------------------------------------------------------- C1, C2

\* C1: for every subset count S >= 1 the slice index j*(j+1)/2+i (i = min,
\* j = max of the two subset ids), as computed by addSwitchingParameter and by
\* the kernel's exclusion code, is a bijection between the unordered pairs of
\* [0,S) and [0, S*(S+1)/2): the id computed is in range, no other unordered
\* pair gets the same id, and every id of the range is the id of some pair.
C1_SliceIndexBijection ==
    site \in {"addSwitchingParameter", "exclusion"} =>
        LET S == 0 .. (numSubsets - 1)
            Ids == 0 .. (NumSlices(numSubsets) - 1)
        IN  /\ slice \in Ids
            /\ slice = (Max(sub1, sub2) * (Max(sub1, sub2) + 1)) \div 2 + Min(sub1, sub2)
            /\ \A a, b \in S : SliceAt(site, a, b) = slice => {a, b} = {sub1, sub2}
            /\ \A k \in Ids : \E a, b \in S : SliceAt(site, a, b) = k

C1_Witness ==
    /\ site = "exclusion"
    /\ numSubsets = 3
    /\ sub1 = 2
    /\ sub2 = 0
    /\ slice = 3

\* C2: every place that turns two subset ids into a slice id is symmetric and
\* stays inside [0, numSlices): the id computed for (s1, s2) is the id the same
\* place computes for (s2, s1).
C2_EverySiteSymmetric ==
    site \in Sites =>
        /\ slice \in 0 .. (NumSlices(numSubsets) - 1)
        /\ SliceAt(site, sub2, sub1) = slice

\* -------------------------------------------------------------- C3, C4, C5

\* The unordered pair of subsets a switching parameter is bound to.
BoundPair(index) ==
    {At(switchingParameters, index).subset1, At(switchingParameters, index).subset2}

\* The name of the global parameter of a switching parameter.
BoundName(index) ==
    At(globalParameters, At(switchingParameters, index).globalParamIndex).name

\* C3: after any sequence of successful addSwitchingParameter and
\* setSwitchingParameter calls, no two entries of the switching-parameter list
\* are bound to the same slice (the same unordered pair of subsets).
C3_OneParameterPerSlice ==
    \A i, j \in Indices(switchingParameters) :
        i # j =>
            /\ BoundPair(i) # BoundPair(j)
            /\ At(switchingParameters, i).slice # At(switchingParameters, j).slice

C3_Witness ==
    /\ op = "setSwitchingParameter"
    /\ outcome = "ok"
    /\ Len(switchingParameters) = 2
    /\ BoundPair(0) = {0, 1}
    /\ BoundPair(1) = {1}

\* C4: addSwitchingParameter(name, subset1, subset2) fails when the slice of
\* (subset1, subset2) already has a bound parameter, when either subset is
\* outside [0, numSubsets), or when name is not a previously added global
\* parameter; in each failing case every field of the force is as before.
C4_AddSwitchingParameterFails ==
    [][op' = "addSwitchingParameter" =>
          \A parameter \in Names, pair \in SubsetPairArgs :
              LET subset1 == pair[1]
                  subset2 == pair[2]
                  sliceBound == \E k \in Indices(switchingParameters) :
                                    BoundPair(k) = {subset1, subset2}
                  badSubset == \/ subset1 \notin 0 .. (numSubsets - 1)
                               \/ subset2 \notin 0 .. (numSubsets - 1)
                  unknown == \A g \in Indices(globalParameters) :
                                 At(globalParameters, g).name # parameter
              IN  AddSwitchingParameter(parameter, subset1, subset2) =>
                      /\ (sliceBound \/ badSubset \/ unknown) => outcome' # "ok"
                      /\ outcome' # "ok" => UNCHANGED forceVars
                      /\ outcome' = "ok" =>
                             Len(switchingParameters') = Len(switchingParameters) + 1
      ]_vars

C4_Witness ==
    /\ op = "addSwitchingParameter"
    /\ outcome = SliceDefined
    /\ Len(switchingParameters) = 1
    /\ Len(globalParameters) = 2

\* C5 as claimed: each scaling parameter (global parameter name) is bound to
\* exactly one slice, never to two different slices.
C5_OneSlicePerParameter ==
    \A i, j \in Indices(switchingParameters) :
        BoundName(i) = BoundName(j) => BoundPair(i) = BoundPair(j)

\* C5 as amended: every entry of the switching-parameter list binds one declared
\* global parameter to one slice of [0, numSlices), and a name bound by several
\* entries is bound to as many different slices (never twice to the same one).
C5_ParameterSlicesDistinct ==
    /\ \A i \in Indices(switchingParameters) :
          /\ At(switchingParameters, i).globalParamIndex \in Indices(globalParameters)
          /\ At(switchingParameters, i).slice \in 0 .. (NumSlices(numSubsets) - 1)
    /\ \A name \in Names :
          LET entries == {i \in Indices(switchingParameters) : BoundName(i) = name}
          IN  Cardinality({BoundPair(i) : i \in entries}) = Cardinality(entries)

C5_Witness ==
    /\ Len(switchingParameters) = 2
    /\ BoundName(0) = BoundName(1)
    /\ BoundPair(0) # BoundPair(1)

\* ------------------------------------------------------------------ C6, C7

\* C6: for every slice that no switching parameter of the force is bound to,
\* the kernel's slice lambda (host vector and device buffer) is 1.0 after
\* initialize and after every execute, whatever the context's parameters are.
C6_UnboundSliceLambdaIsOne ==
    initialized =>
        \A s \in 0 .. (NumSlices(numSubsets) - 1) :
            ~SliceAlreadyDefined(s) =>
                /\ At(sliceLambdaVec, s) = One
                /\ At(sliceLambda, s) = One

\* C7: at the return of every execute, the host-side lambda of every slice
\* with a bound switching parameter is the value the context holds for that
\* parameter, the device buffer holds the host-side lambdas, and the Ewald
\* self-energy is the one of these lambdas.
C7_BoundSliceLambdaIsContextValue ==
    op = "execute" =>
        /\ \A i \in Indices(switchingParameters) :
               At(sliceLambdaVec, At(switchingParameters, i).slice) = context[BoundName(i)]
        /\ sliceLambda = sliceLambdaVec
        /\ ewaldSelfEnergy = ScaledSelfEnergy(sliceLambdaVec, subsetSelfEnergy, 0)

\* ------------------------------------------------------------------ C8, C9

\* The unordered pair of particles of an exception.
ExceptionPair(index) ==
    {At(exceptions, index).particle1, At(exceptions, index).particle2}

\* C8: addException(p1, p2, chargeProd, replace) when an exception already
\* exists for the unordered pair {p1, p2}: with replace = false it throws and
\* leaves the exception list and the pair-to-index map unchanged; with
\* replace = true it overwrites that exception in place, returns the existing
\* index, and leaves the number of exceptions unchanged.
C8_AddExistingException ==
    [][\A particle1 \in ParticleArgs, particle2 \in ParticleArgs,
          chargeProd \in ChargeProds, replace \in BOOLEAN :
          (/\ AddException(particle1, particle2, chargeProd, replace)
           /\ \E k \in Indices(exceptions) : ExceptionPair(k) = {particle1, particle2})
          => IF ~replace
                THEN outcome' = ExceptionExists /\ UNCHANGED <<exceptions, exceptionMap>>
                ELSE /\ outcome' = "ok"
                     /\ Len(exceptions') = Len(exceptions)
                     /\ ret' \in Indices(exceptions)
                     /\ ExceptionPair(ret') = {particle1, particle2}
                     /\ exceptions' = [exceptions EXCEPT ![ret' + 1] =
                                          ExceptionInfo(particle1, particle2, chargeProd)]
      ]_vars

\* C9: after any sequence of successful addException, setExceptionParameters
\* and createExceptionsFromBonds calls, at most one exception exists per
\* unordered particle pair.
C9_OneExceptionPerPair ==
    \A i, j \in Indices(exceptions) : i # j => ExceptionPair(i) # ExceptionPair(j)

\* -------------------------------------------------------------------- C10

\* C10: there is at most one derivative request per parameter name (no two
\* requests report the same name through getSwitchingParameterDerivativeName),
\* and requesting a derivative that was already requested fails and leaves the
\* request list unchanged.
C10_DerivativeNamesDistinct ==
    \A i, j \in Indices(switchParamDerivatives) :
        i # j => GetSwitchingParameterDerivativeName(i) # GetSwitchingParameterDerivativeName(j)

\* -------------------------------------------------------------------- C11

C11_SubsetsInRange ==
    \A i \in Indices(particles) : At(particles, i).subset \in 0 .. (numSubsets - 1)

\* C11: after any sequence of addParticle and setParticleSubset calls every
\* particle's subset is in [0, numSubsets); a call given a subset outside that
\* range throws "Subset out of range" (setParticleSubset: unless the index is
\* invalid, which throws first) and leaves the particle list, like every
\* other field of the force, unchanged.
C11_ParticleSubsetsValid ==
    /\ []C11_SubsetsInRange
    /\ [][/\ \A charge \in Charges, subset \in SubsetArgs :
                (AddParticle(charge, subset) /\ subset \notin 0 .. (numSubsets - 1))
                    => (outcome' = SubsetOutOfRange /\ UNCHANGED forceVars)
          /\ \A index \in IndexArgs(particles), subset \in SubsetArgs :
                (SetParticleSubset(index, subset) /\ subset \notin 0 .. (numSubsets - 1))
                    => (outcome' \in {SubsetOutOfRange, IndexOutOfRange} /\ UNCHANGED forceVars)
       ]_vars

C11_Witness ==
    /\ op = "setParticleSubset"
    /\ outcome = SubsetOutOfRange
    /\ Len(particles) = 2
    /\ At(particles, 0).subset # At(particles, 1).subset

\* -------------------------------------------------------------------- C12
\* The particle pairs of the exceptions of the force that are non-zero or carry
\* an offset, in order.
KeptPairs == [k \in 1 .. Len(KeptExceptions) |-> PairOf(KeptExceptions[k])]

\* Since initialize, the force has the same number of particles and the same
\* particle pair in every exception: only values were changed.
OnlyValuesChanged ==
    /\ Len(particles) = numAtoms
    /\ [k \in 1 .. Len(exceptions) |-> PairOf(k - 1)] = exclusionAtoms

C18_OffDiagonalKeepsSelfEnergy ==
    [][(/\ initialized
        /\ op' = "execute"
        /\ \A i \in Indices(switchingParameters) :
               At(switchingParameters, i).subset1 # At(switchingParameters, i).subset2)
       => /\ \A j \in 0 .. (numSubsets - 1) :
                 At(sliceLambdaVec', (j * (j + 3)) \div 2) = At(sliceLambdaVec, (j * (j + 3)) \div 2)
          /\ ewaldSelfEnergy' = ewaldSelfEnergy
      ]_vars

\* -------------------------------------------------------------------- C14
\* The stage of the reciprocal-space pipeline a kernel belongs to, 0 for
\* everything else.
StageOf(launch) ==
    IF launch.grid = "none" THEN 0
    ELSE CASE launch.name \in {"clearBuffer(pmeGrid2)", "findAtomGridIndex", "sort"} -> 1
           [] launch.name = "gridSpreadCharge" -> 2
           [] launch.name = "finishSpreadCharge" -> 3
           [] launch.name = "execFFT(true)" -> 4
           [] launch.name \in {"gridEvaluateEnergy", "addSelfEnergy"} -> 5
           [] launch.name = "reciprocalConvolution" -> 6
           [] launch.name = "execFFT(false)" -> 7
           [] launch.name = "gridInterpolateForce" -> 8
           [] OTHER -> 9

\* The positions in issued of the kernels of one grid set.
PositionsOf(issued, grid) == {i \in 1 .. Len(issued) : issued[i].grid = grid}

\* The kernels of one grid set are on one stream, no kernel of a stage is
\* issued before one of an earlier stage or twice, the atom grid index comes
\* before its sort, and every stage but the energy evaluation is there.
InStageOrder(issued, grid) ==
    LET at == PositionsOf(issued, grid)
    IN  at # {} =>
           /\ \A i, j \in at : issued[i].stream = issued[j].stream
           /\ \A i, j \in at : i < j =>
                  /\ StageOf(issued[i]) <= StageOf(issued[j])
                  /\ issued[i].name # issued[j].name
                  /\ ~(issued[i].name = "sort" /\ issued[j].name = "findAtomGridIndex")
           /\ {StageOf(issued[i]) : i \in at} \ {5} = {1, 2, 3, 4, 6, 7, 8}

\* The dispersion kernels come after the Coulomb force interpolation, and the
\* spreading grid is cleared in their first stage.
DispersionAfterCoulomb(issued) ==
    PositionsOf(issued, "dispersion") # {} =>
        /\ \A i \in PositionsOf(issued, "charge"), j \in PositionsOf(issued, "dispersion") :
               i < j
        /\ \E j \in PositionsOf(issued, "dispersion") :
               issued[j].name = "clearBuffer(pmeGrid2)"

EvaluationOf(i) ==
    Cardinality({j \in 1 .. i : Issued[j] = Kernel("main", "clearAutoclearBuffers")})

\* The positions in Issued of a launch in evaluation e.
Where(launch, e) ==
    {i \in 1 .. Len(Issued) : Issued[i] = launch /\ EvaluationOf(i) = e}

Interpolations(e) == Where(GridKernel("pme", "charge", "gridInterpolateForce"), e)

\* The kernels that write forces: the direct-space ones on the main stream and
\* the force interpolation of the reciprocal-space pipeline.
ForceWrites(e) ==
    Where(Kernel("main", "computeBonds"), e) \cup Where(Kernel("main", "computeNonbonded"), e)
        \cup Interpolations(e)

\* The evaluations in which the pipeline runs on its own stream.
TwoStreamEvaluations ==
    {e \in 1 .. Len(groups) : usePmeStream /\ groups[e].reciprocal}

\* C15: when the reciprocal-space pipeline runs on its own stream and the
\* reciprocal force group is evaluated, the PME stream runs nothing of the
\* evaluation before the event that the pre-computation recorded on the main
\* stream, the post-computation waits for an event recorded on the PME stream
\* after the force interpolation of the same evaluation, and in every
\* interleaving the forces are summed only after the direct-space and the
\* reciprocal-space force writes have completed.
C15_ForcesSummedAfterBothWrites ==
    \A e \in TwoStreamEvaluations :
        /\ \A i \in completed : (Issued[i].stream = "pme" /\ EvaluationOf(i) = e) =>
               \E r \in Where(EventRecord("pmeSyncEvent", "main"), e) \cap completed : r < i
        /\ \A w \in Where(StreamWaitEvent("main", "pmeSyncEvent"), e) :
               /\ Captured(Issued, w) \in Where(EventRecord("pmeSyncEvent", "pme"), e)
               /\ Interpolations(e) # {}
               /\ \A i \in Interpolations(e) : i < Captured(Issued, w)
        /\ \A s \in Where(Kernel("main", "reduceForces"), e) \cap completed :
               /\ Interpolations(e) # {}
               /\ ForceWrites(e) \subseteq completed

\* The forces were summed in a second evaluation of both groups on two
\* streams, after a first one of the same kind.
C15_Witness ==
    /\ TwoStreamEvaluations = {1, 2}
    /\ groups[2].direct
    /\ Where(Kernel("main", "computeBonds"), 2) # {}
    /\ Where(Kernel("main", "reduceForces"), 2) \cap completed # {}

\* -------------------------------------------------------------------- C23
\* The slices (from 1) that the scaling parameters of a name control for an
\* interaction type, in the force given to initialize.
ControlledCoulomb(name, s) ==
    \E i \in 1 .. Len(forceScaling) :
        /\ forceScaling[i].name = name
        /\ forceScaling[i].includeCoulomb
        /\ SwitchingSlice(forceScaling[i].subset1, forceScaling[i].subset2) + 1 = s

ControlledLJ(name, s) ==
    \E i \in 1 .. Len(forceScaling) :
        /\ forceScaling[i].name = name
        /\ forceScaling[i].includeLJ
        /\ SwitchingSlice(forceScaling[i].subset1, forceScaling[i].subset2) + 1 = s

\* C23: for each scaling parameter whose derivative is requested, addEnergy
\* adds to its accumulator the sum of the raw energies of exactly the slices
\* it controls, Coulomb energies for the slices it scales the Coulomb terms of
\* and (with LJPME) Lennard-Jones energies for the slices it scales the
\* Lennard-Jones terms of, whatever the lambdas; the dispersion correction
\* returns the sum over the slices of lambda_LJ(slice)*coefficient(slice)/volume
\* and adds coefficient(slice)/volume for each slice whose Lennard-Jones
\* derivative is requested.
C23_DerivativeAmounts ==
    /\ op = "addEnergy" =>
           \A name \in Names :
               LET Coulomb(s) == ControlledCoulomb(name, s)
                   LennardJones(s) == ControlledLJ(name, s)
               IN  energyParamDerivs[name] =
                       IF name \in forceDerivs
                          THEN SliceSum(postInputs.first, {slot \in DOMAIN postInputs.first : Coulomb(slot)}, 1)
                               + (IF doLJPME THEN SliceSum(postInputs.second, {slot \in DOMAIN postInputs.second : LennardJones(slot)}, 1)
                                             ELSE 0)
                          ELSE 0
    /\ (op = "DispersionCorrectionPostComputation" /\ nbEvaluation.energy) =>
           /\ LET All(s) == TRUE
                  terms == [s \in 1 .. Len(postInputs.first) |->
                               (sliceLambdasVec[s].y * postInputs.first[s]) \div postInputs.volume]
              IN  postEnergy = SliceSum(terms, {slot \in DOMAIN terms : All(slot)}, 1)
           /\ \A name \in Names :
                  LET LennardJones(s) == name \in forceDerivs /\ ControlledLJ(name, s)
                      shares == [s \in 1 .. Len(postInputs.first) |->
                                    postInputs.first[s] \div postInputs.volume]
                  IN  energyParamDerivs[name] = SliceSum(shares, {slot \in DOMAIN shares : LennardJones(slot)}, 1)

\* addEnergy has added the Coulomb energy of one slice and the Lennard-Jones
\* energy of another to the derivative of "a", with a lambda that is not 1.
C23_Witness ==
    /\ op = "addEnergy"
    /\ doLJPME
    /\ energyParamDerivs["a"] = 2 + 32
    /\ \E s \in 1 .. Len(sliceLambdasVec) : sliceLambdasVec[s].x = 0

\* -------------------------------------------------------------------- C27
\* C27: when copyParametersToContext fails, the state of the kernel is exactly
\* what it was before the call: base charges, subsets, base exception
\* chargeProds, subsetSelfEnergy, ewaldSelfEnergy and the recompute flag are
\* untouched, so that a later execute computes with the parameters of before.
C27_FailedCopyChangesNothing ==
    [][(op' = "copyParametersToContext" /\ outcome' # "ok") =>
          UNCHANGED <<baseParticleCharges, subsets, baseExceptionChargeProds,
                      subsetSelfEnergy, ewaldSelfEnergy, recomputeParams>>]_vars

\* -------------------------------------------------------------------- C29
\* C29: the AddEnergyPostComputation of the nonbonded kernel never launches
\* its addEnergy kernel before its initialize() has run: in every sequence of
\* force evaluations, whatever the groups and includeEnergy, a post-computation
\* that launches the kernel follows an execute that initialized it.
C29_AddEnergyInitializedBeforeLaunch == addEnergyLaunch # "uninitialized"

\* The kernel was launched, for its derivatives, in an evaluation without
\* energy of the reciprocal space group alone.
C29_Witness ==
    /\ addEnergyLaunch = "initialized"
    /\ op = "AddEnergyPostComputation"
    /\ ~nbEvaluation.energy
    /\ nbForceGroup \notin nbEvaluation.groups
    /\ addEnergyHasDerivatives

\* -------------------------------------------------------------------- C28
\* The launches of an execute that work on a grid.
GridStages(issued) == {i \in 1 .. Len(issued) : issued[i].grid # "none"}

\* C28: an execute with includeReciprocal = false contributes nothing from
\* reciprocal space: it returns no Ewald self-energy, runs no stage of the grid
\* pipeline and adds no self-energy term to the derivative accumulator of any
\* scaling parameter.
C28_NothingFromReciprocalSpace ==
    [][/\ (op' = "execute" /\ \E e, d \in BOOLEAN : Execute(e, d, FALSE)) =>
              (energy' = 0 /\ GridStages(launched') = {})
       /\ (op' = "execute" /\ \E e \in BOOLEAN : ExecuteNonbonded(e, FALSE)) =>
              /\ nbEnergy' = 0
              /\ ~kernelSelfEnergy'
              /\ GridStages(nbLaunched') = {}
              /\ \A name \in Names : selfEnergyDerivs'[name] = 0]_vars

\* -------------------------------------------------------------------- C22
\* The number of addSelfEnergy kernels among the launches of an execute.
SelfEnergyLaunches(issued) ==
    Cardinality({i \in 1 .. Len(issued) : issued[i].name = "addSelfEnergy"})

\* C22: in every execute with includeEnergy and includeReciprocal true the
\* Ewald self-energy is contributed exactly once: by the returned value when
\* the force has no offsets, by the kernel-side addition when it has offsets;
\* never by both and never by neither.
C22_SelfEnergyOnce ==
    [][/\ (op' = "execute" /\ Execute(TRUE, TRUE, TRUE)) =>
              IF hasOffsets
                 THEN energy' = 0 /\ SelfEnergyLaunches(launched') = 1
                 ELSE energy' = ewaldSelfEnergy' /\ SelfEnergyLaunches(launched') = 0
       /\ (/\ op' = "execute"
           /\ IncludeEwald(nonbondedMethod, hasCoulomb, hasLJ)
           /\ ExecuteNonbonded(TRUE, TRUE)) =>
              IF nbHasOffsets
                 THEN nbEnergy' = 0 /\ kernelSelfEnergy'
                 ELSE nbEnergy' = nbEwaldSelfEnergy' /\ ~kernelSelfEnergy']_vars

\* The PME kernel of a force with offsets has launched addSelfEnergy and
\* returned 0; the nonbonded kernel of a force without offsets has returned
\* its non-zero self-energy.
C22_Witness ==
    /\ op = "execute"
    /\ hasOffsets
    /\ ewaldSelfEnergy # 0
    /\ SelfEnergyLaunches(launched) = 1
    /\ energy = 0
    /\ IncludeEwald(nonbondedMethod, hasCoulomb, hasLJ)
    /\ ~nbHasOffsets
    /\ nbEnergy # 0
    /\ nbEnergy = nbEwaldSelfEnergy
    /\ ~kernelSelfEnergy

\* -------------------------------------------------------------------- C21
\* The computeParameters kernel is among the launches of an execute.
ParametersComputed(issued) ==
    \E i \in 1 .. Len(issued) : issued[i] = Kernel("main", "computeParameters")

\* An offset parameter's value in the context differs from its cached value.
OffsetParameterChanged(names, cached) ==
    \E i \in 1 .. Len(names) : context[names[i]] # cached[i]

\* recomputeParams is set by initialize and by a copy that returns, cleared by
\* execute, and left alone by every other call (a copy that throws included);
\* the same for the nonbonded kernel.
DirtyFlagHistory ==
    /\ (op' = "initialize" /\ initialized' /\ ~initialized) => recomputeParams'
    /\ (op' = "initialize" /\ nonbondedMethod = "none" /\ nonbondedMethod' # "none")
           => nbRecomputeParams'
    /\ (op' = "copyParametersToContext" /\ outcome' = "ok" /\ CopyParametersToContext)
           => recomputeParams'
    /\ (op' = "copyParametersToContext" /\ outcome' = "ok" /\ LazyNbCopyParametersToContext)
           => nbRecomputeParams'
    /\ (op' = "execute" /\ SelfExecute) => ~recomputeParams'
    /\ (op' = "execute" /\ CallExecuteNonbonded) => ~nbRecomputeParams'
    /\ (op' \notin {"initialize", "execute"} /\ outcome' # "ok")
           => (recomputeParams' = recomputeParams /\ nbRecomputeParams' = nbRecomputeParams)
    /\ op' \notin {"initialize", "execute", "copyParametersToContext"}
           => (recomputeParams' = recomputeParams /\ nbRecomputeParams' = nbRecomputeParams)

\* The PME kernel computes the parameters in exactly the executes that find the
\* flag set or an offset parameter changed.
PmeComputesWhenDirty ==
    (op' = "execute" /\ SelfExecute) =>
        (ParametersComputed(launched')
            <=> (recomputeParams \/ OffsetParameterChanged(paramNames, paramValues)))

\* C21 as stated: in execute the computeParameters / computeExclusionParameters
\* step runs exactly when the dirty flag is set (first execute after
\* initialize, first execute after copyParametersToContext, or an offset
\* parameter's context value differs from its cached value) and in no other
\* execute; the flag is cleared once the step has run.
C21_RecomputedExactlyWhenDirty ==
    [][/\ DirtyFlagHistory
       /\ PmeComputesWhenDirty
       /\ (op' = "execute" /\ CallExecuteNonbonded) =>
              (ParametersComputed(nbLaunched')
                  <=> (nbRecomputeParams
                         \/ OffsetParameterChanged(nbParamNames, nbParamValues)))]_vars

\* C21 amended: as stated for the PME kernel; the nonbonded kernel runs the
\* step when the dirty flag is set and also in every execute of a force that
\* has parameter offsets; execute leaves the flag cleared.
C21_RecomputedWhenDirtyOrOffsets ==
    [][/\ DirtyFlagHistory
       /\ PmeComputesWhenDirty
       /\ (op' = "execute" /\ CallExecuteNonbonded) =>
              (ParametersComputed(nbLaunched')
                  <=> (nbRecomputeParams
                         \/ OffsetParameterChanged(nbParamNames, nbParamValues)
                         \/ nbHasOffsets))]_vars

\* The PME kernel has executed without computing the parameters, after an
\* execute that found the offset parameter changed to 0; the nonbonded kernel
\* of a force with offsets has computed them.
C21_Witness ==
    /\ op = "execute"
    /\ hasOffsets
    /\ paramValues = <<0>>
    /\ launched # <<>>
    /\ ~ParametersComputed(launched)
    /\ nbHasOffsets
    /\ nbParamValues = <<One>>
    /\ ParametersComputed(nbLaunched)

\* -------------------------------------------------------------------- C20
\* The self energy of every subset, computed as initialize and
\* copyParametersToContext do, from the charges and subsets the kernel holds.
RECURSIVE SumOfSquares(_, _, _, _)
SumOfSquares(chargeVec, subsetVec, j, i) ==
    IF i >= Len(chargeVec) THEN 0
    ELSE (IF At(subsetVec, i) = j THEN At(chargeVec, i) * At(chargeVec, i) ELSE 0)
         + SumOfSquares(chargeVec, subsetVec, j, i + 1)

SelfEnergyOf(chargeVec, subsetVec) ==
    [s \in 1 .. numSubsets |-> 0 - SumOfSquares(chargeVec, subsetVec, s - 1, 0)]

\* C20: at the return of every execute call, after any interleaving of
\* initialize, scaling-parameter changes, offset-parameter changes and
\* copyParametersToContext, ewaldSelfEnergy is the sum over the subsets j of
\* lambda(slice j*(j+3)/2) times subsetSelfEnergy[j], and subsetSelfEnergy[j] is
\* the one of the charges and subset assignments most recently given to the
\* kernel.
C20_SelfEnergyAtExecute ==
    op = "execute" =>
        /\ ewaldSelfEnergy = ScaledSelfEnergy(sliceLambdaVec, subsetSelfEnergy, 0)
        /\ subsetSelfEnergy = SelfEnergyOf(baseParticleCharges, subsets)

\* -------------------------------------------------------------------- C13

\* C13: getPMEParameters returns the kernel's (alpha, gridSizeX, gridSizeY,
\* gridSizeZ) whenever the method is PME or LJPME and throws for every other
\* method; getLJPMEParameters returns the dispersion parameters whenever the
\* method is LJPME and throws otherwise.
C13_ParameterGetters ==
    /\ op = "getPMEParameters" =>
           IF nonbondedMethod \in {"PME", "LJPME"}
              THEN outcome = "ok" /\ ret = pmeParameters
              ELSE outcome = NotUsingPme
    /\ op = "getLJPMEParameters" =>
           IF nonbondedMethod = "LJPME"
              THEN outcome = "ok" /\ ret = dispersionParameters
              ELSE outcome = NotUsingPme

\* ---------------------------------------------------------- C16, C17, C19

IsPrime(q) == q > 1 /\ \A d \in 2 .. (q - 1) : q % d # 0

\* Every prime factor of n is at most maxPrime.
IsLegalDimension(n, maxPrime) ==
    n >= 1 /\ \A q \in 2 .. n : (n % q = 0 /\ IsPrime(q)) => q <= maxPrime

\* The value returned on (requested, maxPrimeFactor) is the one C16 names.
ReturnsSmallestLegalDimension ==
    fftState = "returned" =>
        IF requested < 1
           THEN legalDimension = 1
           ELSE /\ legalDimension >= requested
                /\ IsLegalDimension(legalDimension, maxPrimeFactor)
                /\ \A n \in requested .. (legalDimension - 1) :
                       ~IsLegalDimension(n, maxPrimeFactor)

C17_LegalDimensionOf100And101 ==
    (maxPrimeFactor = 7 /\ requested \in {100, 101}) =>
        /\ fftState # "trapped"
        /\ ~overflowed
        /\ fftState = "returned" =>
               legalDimension = (IF requested = 100 THEN 100 ELSE 108)

\* C17, amended: findLegalDimension(100, 7) returns 100 and
\* findLegalDimension(101, 7) returns 105 (= 3*5*7).
C17_LegalDimensionOf101Is105 ==
    (maxPrimeFactor = 7 /\ requested \in {100, 101}) =>
        /\ fftState # "trapped"
        /\ ~overflowed
        /\ fftState = "returned" =>
               legalDimension = (IF requested = 100 THEN 100 ELSE 105)

C17_Witness ==
    /\ fftState = "returned"
    /\ maxPrimeFactor = 7
    /\ requested = 101
    /\ legalDimension = 105

\* C19: for every int minimum the search ends before the candidate overflows:
\* minimum++ is never evaluated at INT_MAX.
C19_SearchNeverOverflows ==
    ~overflowed

\* ------------------------------------------------- initialize on contexts

\* Forces of three particles: every assignment of three subsets, every list of
\* exceptions on distinct pairs, at most one exception offset.
TableParticles == 0 .. 2
TablePairs == {pair \in TableParticles \X TableParticles : pair[1] < pair[2]}
ExceptionArgs ==
    {ExceptionInfo(pair[1], pair[2], chargeProd) : pair \in TablePairs, chargeProd \in ChargeProds}
ExceptionLists ==
    {excs \in UNION {[1 .. n -> ExceptionArgs] : n \in 0 .. Cardinality(TablePairs)} :
        \A i, j \in DOMAIN excs :
            i # j => <<excs[i].particle1, excs[i].particle2>>
                         # <<excs[j].particle1, excs[j].particle2>>}
TableGlobals == <<GlobalParameterInfo("b", One), GlobalParameterInfo("a", One)>>

UpToTwo(S) == {<<>>} \cup {<<x>> : x \in S} \cup {<<x, y>> : x \in S, y \in S}

InitSplit ==
    /\ \E subs \in [1 .. Cardinality(TableParticles) -> 0 .. 2], excs \in ExceptionLists :
           \E eOffsets \in {<<>>} \cup {<<ExceptionOffsetInfo(0, x, One)>> : x \in Indices(excs)} :
               BuiltForce(Cardinality(TableParticles), TableGlobals,
                          [i \in DOMAIN subs |-> ParticleInfo(One, subs[i])],
                          excs, <<>>, eOffsets)
    /\ KernelNotCreated
    /\ PlatformIdle

\* Forces of three particles whose exceptions are the first ones of a fixed
\* list, with at most two offsets of each kind.
TableExceptions ==
    <<ExceptionInfo(0, 1, One), ExceptionInfo(0, 2, 0), ExceptionInfo(1, 2, 0)>>

InitTables ==
    /\ \E n \in 0 .. Len(TableExceptions) :
           \E pOffsets \in UpToTwo({ParticleOffsetInfo(g, i, c) :
                                       g \in Indices(TableGlobals), i \in 0 .. 1, c \in Charges}),
              eOffsets \in UpToTwo({ExceptionOffsetInfo(g, x, One) :
                                       g \in Indices(TableGlobals), x \in 0 .. n - 1}) :
               BuiltForce(2, TableGlobals,
                          <<ParticleInfo(One, 0), ParticleInfo(One, 1), ParticleInfo(One, 1)>>,
                          SubSeq(TableExceptions, 1, n), pOffsets, eOffsets)
    /\ KernelNotCreated
    /\ PlatformIdle

\* The kernel is created and initialized on one of the contexts of the platform.
InitializeOnContext ==
    \E N \in 1 .. MaxContexts : \E c \in 0 .. N - 1 : InitializeOn(c, N, FALSE)

NextSplit == InitializeOnContext

SpecSplit == InitSplit /\ [][NextSplit]_vars

NextTables == InitializeOnContext

SpecTables == InitTables /\ [][NextTables]_vars

\* ---------------------------------------------------------------- C24

\* Context c of the platform handles entry i of a list of total entries.
Handles(c, i, total) ==
    /\ (c * total) \div numContexts <= i
    /\ i < ((c + 1) * total) \div numContexts

\* The exceptions of the force that are interactions: with a chargeProd that
\* is not zero, or with a charge offset.
Interacting ==
    {i \in Indices(exceptions) :
        \/ At(exceptions, i).chargeProd # 0
        \/ \E o \in Indices(exceptionOffsets) : At(exceptionOffsets, o).exception = i}

\* C24: after initialize, every exception of the force is an exclusion of
\* exactly one context, and the context that handles it holds it exactly once,
\* with the slice of the subsets of its two particles; exactly the exceptions
\* with a chargeProd that is not zero or with an offset are, in addition, an
\* exception entry of exactly one context, held once with the same slice and
\* the chargeProd of the force. The index ranges of the contexts are disjoint and
\* cover every entry.
C24_ExceptionsSplitOverContexts ==
    (initialized /\ op = "initialize") =>
        \A i \in Indices(exceptions) :
            LET sliceOf == SwitchingSlice(At(particles, At(exceptions, i).particle1).subset,
                                          At(particles, At(exceptions, i).particle2).subset)
                rank == Cardinality({j \in Interacting : j < i})
                exclusionEntries ==
                    {k \in Indices(exclusionAtoms) : At(exclusionAtoms, k) = PairOf(i)}
                exceptionEntries ==
                    {k \in Indices(exceptionPairs) : At(exceptionPairs, k) = PairOf(i)}
            IN  /\ Cardinality({c \in 0 .. numContexts - 1 :
                                   Handles(c, i, Len(exceptions))}) = 1
                /\ Cardinality(exclusionEntries)
                       = IF Handles(contextIndex, i, Len(exceptions)) THEN 1 ELSE 0
                /\ \A k \in exclusionEntries : At(exclusionSlices, k) = sliceOf
                /\ i \in Interacting =>
                       Cardinality({c \in 0 .. numContexts - 1 :
                                       Handles(c, rank, Cardinality(Interacting))}) = 1
                /\ Cardinality(exceptionEntries)
                       = IF i \in Interacting
                            /\ Handles(contextIndex, rank, Cardinality(Interacting))
                         THEN 1 ELSE 0
                /\ \A k \in exceptionEntries :
                       /\ At(exceptionSlices, k) = sliceOf
                       /\ At(baseExceptionChargeProds, k) = At(exceptions, i).chargeProd

\* The second of three contexts was initialized for a force of three
\* exceptions, one of them no interaction and one an interaction only by its
\* offset; it holds one exclusion and one exception.
C24_Witness ==
    /\ initialized
    /\ op = "initialize"
    /\ numContexts = 3
    /\ contextIndex = 1
    /\ Len(exceptions) = 3
    /\ Cardinality(Interacting) = 2
    /\ \E i \in Interacting : At(exceptions, i).chargeProd = 0
    /\ Len(exclusionAtoms) = 1
    /\ Len(exceptionPairs) = 1

\* ---------------------------------------------------------------- C25

\* The entries of a 0-based list at [first, last), each with the number of
\* times it occurs.
Occurrences(list, first, last) ==
    LET positions == {k \in Indices(list) : first <= k /\ k < last}
    IN  [x \in {At(list, k) : k \in positions} |->
            Cardinality({k \in positions : At(list, k) = x})]

NonDecreasing(indices) ==
    \A i \in Indices(indices) : i > 0 => At(indices, i - 1) <= At(indices, i)

\* An entry of an offset table as (scale, name of the parameter).
NamedEntries(table) ==
    [k \in DOMAIN table |-> <<table[k].scale, At(paramNames, table[k].paramIndex)>>]

\* C25: after initialize, the entries of the flattened particle offset table at
\* [particleOffsetIndices[i], particleOffsetIndices[i+1]) are exactly the
\* (scale, parameter) pairs of the offsets of particle i, each as often as the
\* force has it; the index array does not decrease and ends at the number of
\* offsets. The same holds of the exception offset table, for the exceptions
\* this context handles and their offsets.
C25_OffsetTablesIndexedByTarget ==
    (initialized /\ op = "initialize") =>
        /\ NonDecreasing(particleOffsetIndices)
        /\ Len(particleOffsetIndices) > Len(particles)
        /\ particleOffsetIndices[Len(particleOffsetIndices)] = Len(particleOffsets)
        /\ Len(particleParamOffsets) = Len(particleOffsets)
        /\ \A i \in Indices(particles) :
               Occurrences(NamedEntries(particleParamOffsets),
                           At(particleOffsetIndices, i), At(particleOffsetIndices, i + 1))
                 = LET mine == SelectSeq(particleOffsets, LAMBDA o : o.particle = i)
                   IN  Occurrences([k \in DOMAIN mine |->
                                       <<mine[k].chargeScale,
                                         At(globalParameters, mine[k].parameter).name>>],
                                   0, Len(mine))
        /\ NonDecreasing(exceptionOffsetIndices)
        /\ Len(exceptionOffsetIndices) = Len(exceptionPairs) + 1
        /\ exceptionOffsetIndices[Len(exceptionOffsetIndices)] = Len(exceptionParamOffsets)
        /\ Len(exceptionParamOffsets)
               = Cardinality({o \in Indices(exceptionOffsets) :
                     \E k \in Indices(exceptionPairs) :
                         At(exceptionPairs, k) = PairOf(At(exceptionOffsets, o).exception)})
        /\ \A k \in Indices(exceptionPairs) :
               Occurrences(NamedEntries(exceptionParamOffsets),
                           At(exceptionOffsetIndices, k), At(exceptionOffsetIndices, k + 1))
                 = LET mine == SelectSeq(exceptionOffsets,
                                         LAMBDA o : PairOf(o.exception) = At(exceptionPairs, k))
                   IN  Occurrences([j \in DOMAIN mine |->
                                       <<mine[j].chargeProdScale,
                                         At(globalParameters, mine[j].parameter).name>>],
                                   0, Len(mine))

\* The second of two contexts was initialized for a force with two offsets of
\* different parameters on its second particle and two exception offsets, one
\* of them on an exception of the other context.
C25_Witness ==
    /\ initialized
    /\ op = "initialize"
    /\ numContexts = 2
    /\ contextIndex = 1
    /\ Len(particleOffsets) = 2
    /\ At(particleOffsets, 0).particle = 1
    /\ At(particleOffsets, 1).particle = 1
    /\ At(particleOffsets, 0).parameter # At(particleOffsets, 1).parameter
    /\ At(particleOffsetIndices, 1) = 0
    /\ At(particleOffsetIndices, 2) = 2
    /\ Len(exceptionOffsets) = 2
    /\ Len(exceptionParamOffsets) = 1

\* ------------------------------------------------------- B-spline moduli

\* initialize, "Evaluate the actual bspline moduli for X/Y/Z":
\*   for (int i = 0; i < ndata; i++)
\*       if (moduli[i] < 1.0e-7)
\*           moduli[i] = (moduli[(i-1+ndata)%ndata]+moduli[(i+1)%ndata])*0.5;
\* from entry i on, in place.
RECURSIVE ReplaceSmallModuliClamped(_, _)
ReplaceSmallModuliClamped(moduli, i) ==
    LET ndata == Len(moduli)
    IN  IF i >= ndata THEN moduli
        ELSE ReplaceSmallModuliClamped(
                 IF At(moduli, i) < SmallModulus
                    THEN [moduli EXCEPT ![i + 1] =
                             (At(moduli, Max(i - 1, 0)) + At(moduli, Min(i + 1, ndata - 1))) \div 2]
                    ELSE moduli,
                 i + 1)

RECURSIVE ReplaceSmallModuli(_, _)
ReplaceSmallModuli(moduli, i) ==
    LET ndata == Len(moduli)
    IN  IF i >= ndata THEN moduli
        ELSE ReplaceSmallModuli(
                 IF At(moduli, i) < SmallModulus
                    THEN [moduli EXCEPT ![i + 1] =
                             (At(moduli, (i - 1 + ndata) % ndata)
                                  + At(moduli, (i + 1) % ndata)) \div 2]
                    ELSE moduli,
                 i + 1)

\* moduli[i] = sc*sc+ss*ss of the B-spline of PmeOrder 5 on a grid of ndata
\* points: a sum of squares, which vanishes only where the transform of the
\* B-spline does, at i = ndata/2 of an even grid; no two neighbouring moduli
\* are below 1.0e-7. In units of half of 1.0e-7, with even values so that *0.5
\* is exact.
ModulusValues == {0, 4, 6}
ComputedModuli ==
    {m \in UNION {[1 .. ndata -> ModulusValues] : ndata \in 3 .. MaxGrid} :
        \A i \in Indices(m) :
            At(m, i) < SmallModulus => At(m, (i + 1) % Len(m)) >= SmallModulus}

\* The loops over i and j that fill moduli for one axis.
ComputeModuli ==
    /\ computedModuli = <<>>
    /\ \E m \in ComputedModuli : computedModuli' = m
    /\ UNCHANGED <<pmeBsplineModuli, fftState, requested, minimum, maxPrimeFactor,
                   legalDimension, overflowed>>
    /\ UNCHANGED <<forceVars, callVars, probeVars, kernelVars, nbVars, evalVars, postVars>>

\* The replacement loop and xmoduli->upload(moduli, true).
UploadModuli ==
    /\ computedModuli # <<>>
    /\ pmeBsplineModuli = <<>>
    /\ pmeBsplineModuli' = ReplaceSmallModuli(computedModuli, 0)
    /\ UNCHANGED <<computedModuli, fftState, requested, minimum, maxPrimeFactor,
                   legalDimension, overflowed>>
    /\ UNCHANGED <<forceVars, callVars, probeVars, kernelVars, nbVars, evalVars, postVars>>

InitModuli == Constructed(1) /\ PlatformIdle

NextModuli ==
    \/ ComputeModuli
    \/ UploadModuli

SpecModuli == InitModuli /\ [][NextModuli]_vars

\* ---------------------------------------------------------------- C26

BondParticles == 0 .. 4
BondCharges == {<<1, 2, 1, 2, 2>>, <<2, 1, 1, 1, 2>>}
LegalBonds ==
    {b \in BondParticles \X BondParticles : b[1] < b[2] /\ (b[1] + b[2]) % 3 # 0}
        \cup {b \in BondParticles \X BondParticles : b[1] > b[2] /\ (b[1] + b[2]) % 3 = 0}
IllegalBonds == {<<-1, 0>>, <<0, Cardinality(BondParticles)>>}
BondLists ==
    SUBSET LegalBonds \cup {{b, c} : b \in IllegalBonds, c \in LegalBonds \cup IllegalBonds}

InitBonds ==
    /\ \E charges \in BondCharges :
           BuiltForce(1, <<>>, [i \in DOMAIN charges |-> ParticleInfo(charges[i], 0)],
                      <<>>, <<>>, <<>>)
    /\ KernelNotCreated
    /\ PlatformIdle

\* createExceptionsFromBonds as the first call on a force without exceptions.
BondsCreateExceptions ==
    /\ op = "SlicedPmeForce"
    /\ exceptions = <<>>
    /\ \E bonds \in BondLists, coulomb14Scale \in Coulomb14Scales :
           /\ CreateExceptionsFromBonds(bonds, coulomb14Scale)
           /\ bondList' = bonds
           /\ scale14' = coulomb14Scale

NextBonds == BondsCreateExceptions

SpecBonds == InitBonds /\ [][NextBonds]_vars

\* ---------------------------------------------------------------- C30

\* A bond of the list joins particles a and b.
Linked(bonds, a, b) == <<a, b>> \in bonds \/ <<b, a>> \in bonds

\* The number of bonds of the shortest path between particles i and j, when it
\* is at most three; 0 when no path of one, two or three bonds joins them.
BondDistance(bonds, i, j) ==
    LET others == Indices(particles) \ {i, j}
    IN  IF Linked(bonds, i, j) THEN 1
        ELSE IF \E a \in others : Linked(bonds, i, a) /\ Linked(bonds, a, j) THEN 2
        ELSE IF \E a \in others, b \in others :
                    /\ a # b
                    /\ Linked(bonds, i, a) /\ Linked(bonds, a, b) /\ Linked(bonds, b, j)
           THEN 3
        ELSE 0

\* What createExceptionsFromBonds(bonds, coulomb14Scale) has to leave in a
\* force that had no exceptions.
ExceptionsOfBondPaths(bonds, coulomb14Scale) ==
    IF \E bond \in bonds : bond[1] \notin Indices(particles) \/ bond[2] \notin Indices(particles)
       THEN /\ outcome = IllegalBond
            /\ exceptions = <<>>
       ELSE /\ outcome = "ok"
            /\ \A k \in Indices(exceptions) :
                   At(exceptions, k).particle1 # At(exceptions, k).particle2
            /\ \A i \in Indices(particles), j \in Indices(particles) :
                   i < j =>
                       LET entries ==
                               {k \in Indices(exceptions) :
                                   {At(exceptions, k).particle1, At(exceptions, k).particle2}
                                       = {i, j}}
                           distance == BondDistance(bonds, i, j)
                       IN  /\ Cardinality(entries) = IF distance = 0 THEN 0 ELSE 1
                           /\ \A k \in entries :
                                  At(exceptions, k).chargeProd
                                      = IF distance = 3
                                           THEN coulomb14Scale * At(particles, i).charge
                                                               * At(particles, j).charge
                                           ELSE 0

\* C30: createExceptionsFromBonds(bonds, coulomb14Scale) on a force without
\* exceptions creates exactly one exception for every pair of particles joined
\* by a path of 1, 2 or 3 bonds and none for another pair, with chargeProd 0 when
\* a path of 1 or 2 bonds joins them and coulomb14Scale * charge1 * charge2 when
\* the shortest path has 3 bonds; with a bond whose particle index is no
\* particle of the force it throws and creates no exception.
C30_ExceptionsFromBondPaths ==
    op = "createExceptionsFromBonds" => ExceptionsOfBondPaths(bondList, scale14)

\* Exceptions were created from a chain of four bonds: nine of them, two with
\* a chargeProd that is not zero and none between the two ends of the chain.
C30_Witness ==
    /\ op = "createExceptionsFromBonds"
    /\ outcome = "ok"
    /\ Cardinality(bondList) = 4
    /\ Len(exceptions) = 9
    /\ Cardinality({k \in Indices(exceptions) : At(exceptions, k).chargeProd # 0}) = 2
    /\ FindException(exceptionMap, 0, 4) = <<>>
    /\ FindException(exceptionMap, 0, 3) # <<>>
    /\ FindException(exceptionMap, 1, 4) # <<>>

====
